---- MODULE Spec2Model ----
(***************************************************************************)
(* A model of the statistics normalization and ingestion pipeline of the   *)
(* FutbolPorLey scraper: the numeric normalizer, the team and player stat  *)
(* record builders, the stat upserts, the per-match loop of main(), the    *)
(* incidents and shots phase and the round listing.                        *)
(*                                                                         *)
(* Conventions                                                             *)
(*   - A Python str is a sequence of one-character strings.                *)
(*   - A Python value is a tagged record: NoneV, IntV(n), FloatV(n, d),    *)
(*     StrV(chars), BoolV(b), or a fraction dict FracV(s, t, p).           *)
(*   - A float is held as the exact rational n/d in lowest terms (d > 0).  *)
(*     Binary rounding error is not modelled, with one exception: the      *)
(*     outcome of a float comparison of two values that are exactly the    *)
(*     tolerance apart is a nondeterministic input of the action (tie).    *)
(*   - A dict is a function whose DOMAIN is the set of keys present. Keys,  *)
(*     statistic names and period codes, which the code only looks up, are *)
(*     TLA+ strings.                                                       *)
(*   - round(x, 2) of a value exactly half-way between two hundredths goes *)
(*     where the binary float lies; the direction is a nondeterministic    *)
(*     input (up).                                                         *)
(*   - The functions of db_utils.py are defined without async and awaited  *)
(*     by their callers; an await of such a call is taken as the call, and *)
(*     its value as the value the function returns.                        *)
(*   - main.py imports process_player_stats_for_match, init_db_pool and    *)
(*     close_db_pool, which no file of the repository defines. The player  *)
(*     phase (PlayerStatTuple .. process_player_stats_for_match) follows   *)
(*     the design document, sections 4.2 and 4.5; the pool is taken as set *)
(*     up and the browser as started.                                      *)
(*   - Whether a statement reaches the database is a nondeterministic      *)
(*     input of the action that issues it (db_ok).                         *)
(*   - Under Spec the rows written by phase 4 (incidents and shots) are   *)
(*     not part of the state and the phase is present by its outcome;      *)
(*     SpecEvents runs the phase on one match, with its tables and the log *)
(*     of the statements it issues.                                        *)
(*   - Spec starts after the round listing, with the match ids and the     *)
(*     rows of matches as given; SpecListing runs the listing of one round *)
(*     up to the test of main() on the ids returned. The tables of the     *)
(*     listing are present by the statements each task issues (rd_log).    *)
(*   - outcomes is a history variable: what each phase of the match in     *)
(*     progress returned or raised.                                        *)
(*   - The sources of Spec hold no text at the tolerance boundary and no   *)
(*     rating mean at a rounding tie, so TeamStatsPhase and                *)
(*     PlayerStatsPhase pass FALSE for tie and up.                         *)
(*   - SpecUpserts applies the upserts of the dimension tables to tables   *)
(*     held as functions of the id; dim_latest is a history variable.      *)
(*   - SpecReingestion is Spec started on the rows an earlier pass left.   *)
(*   - SpecEventRuns calls the event phase again for the same match with   *)
(*     the same payloads, the tables being kept between the calls.         *)
(*   - succeeded_match_ids is a history variable: the matches of the run   *)
(*     whose phases were all run and all succeeded.                        *)
(*   - SpecPool takes execute_query and execute_batch step by step. The    *)
(*     calls are synchronous and run from one event loop, so one call is   *)
(*     under way at a time. getconn, execute, commit, rollback and putconn *)
(*     return or raise as a nondeterministic input; a putconn that raised  *)
(*     has not taken the connection back. leaked and unrolled are history  *)
(*     variables.                                                          *)
(***************************************************************************)
EXTENDS Integers, Sequences, FiniteSets, TLC

VARIABLES
    nn_input,     \* normalizer: the raw value under conversion, with its provenance
    nn_result,    \* normalizer: what _convert_to_numeric returned for nn_input
    nn_text,      \* normalizer: the re-serialized text of a fraction record
    nn_result2,   \* normalizer: what _convert_to_numeric returned for nn_text
    nn_pc         \* normalizer: "start", "normalized", "serialized", "reparsed"

nn_vars == <<nn_input, nn_result, nn_text, nn_result2, nn_pc>>

VARIABLES
    pl_lineup,    \* players: the lineup payload given to _parse_player_lineup_data
    pl_parsed,    \* players: what _parse_player_lineup_data returned, or what it raised
    pl_formatted, \* players: the home records as texts, before _convert_stats_to_numeric
    pl_pc         \* players: "idle", "start", "parsed"

pl_vars == <<pl_lineup, pl_parsed, pl_formatted, pl_pc>>

VARIABLES
    ts_input,     \* team stats: the statistics list given to _parse_statistics_data, with its provenance
    ts_batch,     \* team stats: the tuples _parse_statistics_data returned
    ts_pc         \* team stats: "idle", "start", "parsed"

ts_vars == <<ts_input, ts_batch, ts_pc>>

VARIABLES
    source,                           \* what the fetches of each match return
    matches,                          \* table matches: match_id -> row
    team_match_stats,                 \* table team_match_stats, a sequence of rows
    player_match_stats,               \* table player_match_stats, a sequence of rows
    run_no,                           \* main(): which run of the program this is
    main_pc,                          \* main(): "idle", "start", the phase of the match, "summary", "finished"
    match_index,                      \* main(): index of the match in all_match_ids
    match_details,                    \* main(): what get_basic_match_details returned
    match_processing_failed,          \* main()
    player_stats_success,             \* main()
    team_aggregates,                  \* main()
    successful_team_stats_count,      \* main()
    successful_player_stats_count,    \* main()
    successful_incidents_shots_count, \* main()
    failed_match_ids_detailed,        \* main()
    stopped,                          \* main(): the loop over the matches was left by break
    first_run,                        \* history: the stat tables when the first run finished
    outcomes                          \* history: what each phase of the match under work gave

db_vars == <<matches, team_match_stats, player_match_stats>>
match_vars == <<match_details, match_processing_failed, player_stats_success, team_aggregates, stopped>>
count_vars == <<successful_team_stats_count, successful_player_stats_count,
                successful_incidents_shots_count, failed_match_ids_detailed>>
main_vars == <<source, db_vars, run_no, main_pc, match_index, match_vars, count_vars, first_run,
              outcomes>>

VARIABLES
    ev_source,        \* events: what the incidents fetch and the shotmap fetch of the call return
    ev_args,          \* events: match_id, home_team_id and away_team_id of the call
    incidents_data,   \* process_incidents_and_shots_for_match()
    shotmap_data,     \* process_incidents_and_shots_for_match()
    success,          \* process_incidents_and_shots_for_match()
    ev_pending,       \* events: the ids of unique_players whose upsert task has not run yet
    ev_index,         \* events: index of the incident or shot under work
    ev_pc,            \* events: "idle", "start", "upserts", "incidents", "shots", "return", "returned"
    ev_result,        \* events: the value returned by the call
    players_table,    \* table players: player_id -> row
    event_tables,     \* tables match_event_base, goal_events, ...: name -> sequence of rows
    ev_log            \* history: the statements issued, in the order of their issue

ev_vars == <<ev_source, ev_args, incidents_data, shotmap_data, success, ev_pending, ev_index,
             ev_pc, ev_result, players_table, event_tables, ev_log>>

VARIABLES
    rd_events,        \* round listing: the events of the round, as the API returned them
    rd_pc,            \* round listing: per event, the statement its task issues next, or "done"
    rd_log,           \* history: per event, the upserts its task issued, in their order
    results           \* scrape_round_match_ids(): per event, what its task returned

rd_vars == <<rd_events, rd_pc, rd_log, results>>

VARIABLES
    dim_tables,       \* tables tournaments, seasons, teams, players, matches: name -> id -> row
    dim_latest,       \* history: per table and id, the row of the last upsert that went through
    dim_calls         \* the number of upserts called

dim_vars == <<dim_tables, dim_latest, dim_calls>>

VARIABLES
    ev_runs           \* events: the number of earlier calls for the same match that returned

er_vars == <<ev_runs>>

VARIABLES
    succeeded_match_ids   \* history: the matches of the run whose phases were all run and all succeeded

su_vars == <<succeeded_match_ids>>

VARIABLES
    db_pool,          \* db_utils: TRUE for the pool, FALSE for db_pool = None
    pool_used,        \* the pool: the connections taken by getconn and not given back by putconn
    pending,          \* the database: per connection, the changes of its open transaction
    committed,        \* the database: the number of changes committed
    cp_pc,            \* execute_query()/execute_batch(): "idle" between calls, else the step to take
    cp_kind,          \* the function called: "query" or "batch"
    conn,             \* execute_query()/execute_batch(): the connection, 0 for None
    cp_failed,        \* the call under way, or the last call, came to its except branch
    cp_calls,         \* the number of calls made
    leaked,           \* history: the connections whose putconn raised
    unrolled          \* history: the connections whose last rollback raised

cp_vars == <<db_pool, pool_used, pending, committed, cp_pc, cp_kind, conn, cp_failed, cp_calls,
             leaked, unrolled>>

vars == <<nn_vars, pl_vars, ts_vars, main_vars, ev_vars, rd_vars, dim_vars, er_vars, su_vars, cp_vars>>

\* what the actions of one component leave alone
nn_rest == <<pl_vars, ts_vars, main_vars, ev_vars, rd_vars, dim_vars, er_vars, su_vars, cp_vars>>
pl_rest == <<nn_vars, ts_vars, main_vars, ev_vars, rd_vars, dim_vars, er_vars, su_vars, cp_vars>>
ts_rest == <<nn_vars, pl_vars, main_vars, ev_vars, rd_vars, dim_vars, er_vars, su_vars, cp_vars>>
main_rest == <<nn_vars, pl_vars, ts_vars, ev_vars, rd_vars, dim_vars, er_vars, su_vars, cp_vars>>
finish_rest == <<nn_vars, pl_vars, ts_vars, ev_vars, rd_vars, dim_vars, er_vars, cp_vars>>
ev_rest == <<nn_vars, pl_vars, ts_vars, main_vars, rd_vars, dim_vars, er_vars, su_vars, cp_vars>>
listing_rest == <<nn_vars, pl_vars, ts_vars, ev_vars, dim_vars, er_vars, su_vars, cp_vars>>
dim_rest == <<nn_vars, pl_vars, ts_vars, main_vars, ev_vars, rd_vars, er_vars, su_vars, cp_vars>>
cp_rest == <<nn_vars, pl_vars, ts_vars, main_vars, ev_vars, rd_vars, er_vars, su_vars, dim_vars>>
er_rest == <<nn_vars, pl_vars, ts_vars, main_vars, rd_vars, dim_vars, su_vars, cp_vars>>

----------------------------------------------------------------------------
(* Python values *)

NoneV == [kind |-> "none"]
IntV(n) == [kind |-> "int", v |-> n]
StrV(chars) == [kind |-> "str", s |-> chars]
BoolV(b) == [kind |-> "bool", b |-> b]

Abs(n) == IF n < 0 THEN -n ELSE n

RECURSIVE GCD(_, _)
GCD(a, b) == IF b = 0 THEN Abs(a) ELSE GCD(b, a % b)

\* the float n/d, in lowest terms with a positive denominator
FloatV(n, d) ==
    LET g == GCD(Abs(n), Abs(d))
        sgn == IF d < 0 THEN -1 ELSE 1
    IN [kind |-> "float", n |-> sgn * (n \div g), d |-> sgn * (d \div g)]

FracV(s, t, p) == [kind |-> "frac", successful |-> s, total |-> t, percentage |-> p]

IsNone(x) == x.kind = "none"
IsInt(x) == x.kind = "int"
IsFloat(x) == x.kind = "float"
IsStr(x) == x.kind = "str"
IsDict(x) == x.kind = "frac"
IsNumber(x) == x.kind \in {"int", "float"}

\* numerator and denominator of a number
NumOf(x) == IF x.kind = "int" THEN x.v ELSE x.n
DenOf(x) == IF x.kind = "int" THEN 1 ELSE x.d

\* n/d rounded to the nearest integer, ties to the even one (Python's round)
RoundHalfEven(n, d) ==
    LET nn == IF d < 0 THEN -n ELSE n
        dd == Abs(d)
        q == nn \div dd
        r == nn % dd
    IN IF 2 * r < dd THEN q
       ELSE IF 2 * r > dd THEN q + 1
       ELSE IF q % 2 = 0 THEN q ELSE q + 1

\* round(x, 4) of the float n/d
Round4(n, d) == FloatV(RoundHalfEven(n * 10000, d), 10000)

----------------------------------------------------------------------------
(* Python str operations on character sequences *)

DIGITS == <<"0", "1", "2", "3", "4", "5", "6", "7", "8", "9">>
DigitChars == {DIGITS[i] : i \in 1..10}
DigitVal(c) == (CHOOSE i \in 1..10 : DIGITS[i] = c) - 1
Whitespace == {" "}

Contains(s, c) == \E i \in 1..Len(s) : s[i] = c
EndsWith(s, c) == Len(s) > 0 /\ s[Len(s)] = c

RECURSIVE LStrip(_, _)
LStrip(s, chars) ==
    IF Len(s) > 0 /\ s[1] \in chars THEN LStrip(Tail(s), chars) ELSE s

RECURSIVE RStrip(_, _)
RStrip(s, chars) ==
    IF Len(s) > 0 /\ s[Len(s)] \in chars THEN RStrip(SubSeq(s, 1, Len(s) - 1), chars) ELSE s

\* str.strip(chars)
Strip(s, chars) == RStrip(LStrip(s, chars), chars)

\* str.split(c) for a one-character separator
RECURSIVE Split(_, _)
Split(s, c) ==
    IF ~Contains(s, c) THEN <<s>>
    ELSE LET i == CHOOSE i \in 1..Len(s) : s[i] = c /\ \A j \in 1..(i - 1) : s[j] # c
         IN <<SubSeq(s, 1, i - 1)>> \o Split(SubSeq(s, i + 1, Len(s)), c)

\* str.replace(a, b) for one-character strings
Replace(s, a, b) == [i \in 1..Len(s) |-> IF s[i] = a THEN b ELSE s[i]]

RECURSIVE DigitsVal(_)
DigitsVal(s) == IF Len(s) = 0 THEN 0 ELSE 10 * DigitsVal(SubSeq(s, 1, Len(s) - 1)) + DigitVal(s[Len(s)])

AllDigits(s) == \A i \in 1..Len(s) : s[i] \in DigitChars

RECURSIVE Pow10(_)
Pow10(k) == IF k = 0 THEN 1 ELSE 10 * Pow10(k - 1)

\* str(n) of an int
RECURSIVE NatToStr(_)
NatToStr(n) == IF n < 10 THEN <<DIGITS[n + 1]>> ELSE NatToStr(n \div 10) \o <<DIGITS[(n % 10) + 1]>>
IntToStr(n) == IF n < 0 THEN <<"-">> \o NatToStr(-n) ELSE NatToStr(n)

\* a sign prefix and the rest
SignOf(s) == IF Len(s) > 0 /\ s[1] = "-" THEN -1 ELSE 1
Unsigned(s) == IF Len(s) > 0 /\ s[1] \in {"-", "+"} THEN Tail(s) ELSE s

\* int(text): surrounding whitespace, an optional sign, decimal digits;
\* anything else is a ValueError (ok = FALSE)
ParseInt(text) ==
    LET OfDigits(sign, u) ==
            IF Len(u) > 0 /\ AllDigits(u)
            THEN [ok |-> TRUE, v |-> sign * DigitsVal(u)]
            ELSE [ok |-> FALSE, v |-> 0]
        OfStripped(s) == OfDigits(SignOf(s), Unsigned(s))
    IN OfStripped(Strip(text, Whitespace))

\* float(text): surrounding whitespace, an optional sign, digits with an optional
\* decimal point; anything else is a ValueError (ok = FALSE). The result is n/d.
ParseFloat(text) ==
    LET OfDigits(sign, n_parts, ip, fp) ==
            IF /\ n_parts <= 2
               /\ AllDigits(ip) /\ AllDigits(fp)
               /\ Len(ip) + Len(fp) > 0
            THEN [ok |-> TRUE,
                  n |-> sign * (DigitsVal(ip) * Pow10(Len(fp)) + DigitsVal(fp)),
                  d |-> Pow10(Len(fp))]
            ELSE [ok |-> FALSE, n |-> 0, d |-> 1]
        OfParts(sign, parts) ==
            OfDigits(sign, Len(parts), parts[1], IF Len(parts) = 2 THEN parts[2] ELSE <<>>)
        OfStripped(s) == OfParts(SignOf(s), Split(Unsigned(s), "."))
    IN OfStripped(Strip(text, Whitespace))

\* the digits of n, left-padded with zeros to k characters
RECURSIVE ZeroPad(_, _)
ZeroPad(s, k) == IF Len(s) >= k THEN s ELSE ZeroPad(<<"0">> \o s, k)

\* str(x) of a float n/d with a short decimal expansion: "7.2", "7.0", "0.25"
FloatToStr(n, d) ==
    LET OfScaled(m, k, unit) ==
            (IF n < 0 THEN <<"-">> ELSE <<>>)
            \o NatToStr(m \div unit) \o <<".">> \o ZeroPad(NatToStr(m % unit), k)
        OfPlaces(k, unit) == OfScaled(Abs(n) * (unit \div d), k, unit)
        Places(k) == OfPlaces(k, Pow10(k))
    IN Places(CHOOSE j \in 1..4 : Pow10(j) % d = 0 /\ \A i \in 1..(j - 1) : Pow10(i) % d # 0)

\* str(value)
PyStr(value) ==
    CASE value.kind = "str" -> value.s
      [] value.kind = "int" -> IntToStr(value.v)
      [] value.kind = "float" -> FloatToStr(value.n, value.d)
      [] value.kind = "bool" -> IF value.b THEN <<"T", "r", "u", "e">> ELSE <<"F", "a", "l", "s", "e">>
      [] value.kind = "none" -> <<"N", "o", "n", "e">>

----------------------------------------------------------------------------
(* helpers/convert_stats.py (the same function is repeated in                *)
(* extractors/statistics_extractor.py)                                       *)

\* the dict returned when the "Successful/Total (Percentage%)" text does not parse
UnparsedComplex == FracV(NoneV, NoneV, NoneV)

\* ConvertComplex with the recalculation of the percentage left out
ConvertComplex_KeepsLiteral(value_str, tie) ==
    LET Parsed(n_counts, successful, total, given, literal) ==
            IF n_counts # 2 \/ ~successful.ok \/ ~total.ok \/ (given /\ ~literal.ok)
            THEN UnparsedComplex
            ELSE FracV(IntV(successful.v), IntV(total.v),
                       IF given THEN Round4(literal.n, literal.d * 100) ELSE NoneV)
        OfTexts(counts, percentage_part) ==
            Parsed(Len(counts), ParseInt(counts[1]), ParseInt(counts[2]),
                   Len(percentage_part) > 0, ParseFloat(percentage_part))
        OfParts(parts) ==
            OfTexts(Split(Strip(parts[1], Whitespace), "/"),
                    Strip(Split(parts[2], ")")[1], {"%", " "}))
    IN OfParts(Split(value_str, "("))

\* ConvertComplex with the percentage of a zero total dropped
ConvertComplex_NullAtZero(value_str, tie) ==
    LET AtZero(r) ==
            IF r # UnparsedComplex /\ r.total.v = 0 THEN FracV(r.successful, r.total, NoneV) ELSE r
    IN AtZero(ConvertComplex_KeepsLiteral(value_str, tie))

\* ConvertComplex with successful clamped to total
ConvertComplex_Clamped(value_str, tie) ==
    LET Clamp(r) ==
            IF r # UnparsedComplex /\ r.successful.v > r.total.v
            THEN FracV(r.total, r.total, r.percentage) ELSE r
    IN Clamp(ConvertComplex_KeepsLiteral(value_str, tie))

\* the "Successful/Total (Percentage%)" branch; tie is the outcome of
\* abs(percentage - calculated_perc) > 0.005 when the two are exactly 0.005 apart
ConvertComplex(value_str, tie) ==
    LET \* both are multiples of 1/10000: apart is the difference in units of 1/10000
        Adjusted(percentage, calculated_perc, apart) ==
            IF apart > 50 \/ (apart = 50 /\ tie) THEN calculated_perc ELSE percentage
        Compared(percentage, calculated_perc) ==
            Adjusted(percentage, calculated_perc,
                     Abs(percentage.n * (10000 \div percentage.d)
                         - calculated_perc.n * (10000 \div calculated_perc.d)))
        Checked(successful, total, percentage) ==
            IF total > 0 /\ ~IsNone(percentage)
            THEN FracV(IntV(successful), IntV(total), Compared(percentage, Round4(successful, total)))
            ELSE IF total > 0 /\ IsNone(percentage)
            THEN FracV(IntV(successful), IntV(total), Round4(successful, total))
            ELSE FracV(IntV(successful), IntV(total), percentage)
        Parsed(n_counts, successful, total, given, literal) ==
            IF \/ n_counts # 2
               \/ ~successful.ok \/ ~total.ok
               \/ (given /\ ~literal.ok)
            THEN UnparsedComplex
            ELSE Checked(successful.v, total.v,
                         IF given THEN Round4(literal.n, literal.d * 100) ELSE NoneV)
        OfTexts(counts, percentage_part) ==
            Parsed(Len(counts), ParseInt(counts[1]), ParseInt(counts[2]),
                   Len(percentage_part) > 0, ParseFloat(percentage_part))
        OfParts(parts) ==
            OfTexts(Split(Strip(parts[1], Whitespace), "/"),
                    Strip(Split(parts[2], ")")[1], {"%", " "}))
    IN OfParts(Split(value_str, "("))

\* ConvertPercentage with 0 for a text that does not parse
ConvertPercentage_ZeroDefault(value_str) ==
    LET Scaled(f) == IF f.ok THEN Round4(f.n, f.d * 100) ELSE IntV(0)
    IN Scaled(ParseFloat(Strip(value_str, {"%", " "})))

\* ConvertPercentage without the division by 100
ConvertPercentage_Unscaled(value_str) ==
    LET Scaled(f) == IF f.ok THEN Round4(f.n, f.d) ELSE NoneV
    IN Scaled(ParseFloat(Strip(value_str, {"%", " "})))

\* the "Percentage%" branch
ConvertPercentage(value_str) ==
    LET Scaled(f) == IF f.ok THEN Round4(f.n, f.d * 100) ELSE NoneV
    IN Scaled(ParseFloat(Strip(value_str, {"%", " "})))

\* the "Integer" or "Float" branch
ConvertSimple(value_str) ==
    LET OfFloat(float_val) == IF float_val.d = 1 THEN IntV(float_val.n) ELSE float_val
        Parsed(f) == IF ~f.ok THEN NoneV ELSE OfFloat(FloatV(f.n, f.d))
    IN Parsed(ParseFloat(Replace(value_str, ",", ".")))

_convert_to_numeric(value, tie) ==
    IF IsNone(value) THEN NoneV
    ELSE LET OfText(value_str) ==
                 IF Len(value_str) = 0 THEN NoneV
                 ELSE IF Contains(value_str, "/") /\ Contains(value_str, "(") /\ EndsWith(value_str, ")")
                      THEN ConvertComplex(value_str, tie)
                 ELSE IF EndsWith(value_str, "%") THEN ConvertPercentage(value_str)
                 ELSE ConvertSimple(value_str)
         IN OfText(Strip(PyStr(value), Whitespace))

_safe_to_int(value) ==
    IF IsNone(value) THEN NoneV
    ELSE LET Truncated(f) ==
                 IF f.ok THEN IntV(IF f.n >= 0 THEN f.n \div f.d ELSE -((-f.n) \div f.d)) ELSE NoneV
         IN Truncated(ParseFloat(Replace(PyStr(value), ",", ".")))

----------------------------------------------------------------------------
(* extractors/players_statistics_extractor.py: the text form of a fraction *)

Get(dict, key, default) == IF key \in DOMAIN dict THEN dict[key] ELSE default

\* {}
EmptyDict == [k \in {} |-> NoneV]

\* int(value): [ok |-> FALSE] stands for the ValueError or TypeError
PyInt(value) ==
    CASE value.kind = "int" -> [ok |-> TRUE, v |-> value.v]
      [] value.kind = "str" -> ParseInt(value.s)
      [] value.kind = "float" ->
            [ok |-> TRUE, v |-> IF value.n >= 0 THEN value.n \div value.d ELSE -((-value.n) \div value.d)]
      [] value.kind = "bool" -> [ok |-> TRUE, v |-> IF value.b THEN 1 ELSE 0]
      [] OTHER -> [ok |-> FALSE, v |-> 0]

_calculate_percentage(numerator, denominator) ==
    IF denominator = 0 THEN 0 ELSE RoundHalfEven(numerator * 100, denominator)

\* f"{accurate}/{total} ({percentage}%)"
FormatFraction(accurate, total, percentage) ==
    IntToStr(accurate) \o <<"/">> \o IntToStr(total) \o <<" ", "(">> \o percentage \o <<"%", ")">>

\* _format_stat_with_total_percentage with the two counts in the wrong order
_format_stat_swapped(accurate_key, total_key, player_stats_raw) ==
    LET Formatted(accurate, total) ==
            FormatFraction(total, accurate, IntToStr(_calculate_percentage(accurate, total)))
        Counted(a, t) == Formatted(IF a.ok THEN a.v ELSE 0, IF t.ok THEN t.v ELSE 0)
    IN Counted(PyInt(Get(player_stats_raw, accurate_key, IntV(0))),
               PyInt(Get(player_stats_raw, total_key, IntV(0))))

_format_stat_with_total_percentage(accurate_key, total_key, player_stats_raw) ==
    LET Formatted(accurate, total) ==
            FormatFraction(accurate, total, IntToStr(_calculate_percentage(accurate, total)))
        Counted(a, t) == Formatted(IF a.ok THEN a.v ELSE 0, IF t.ok THEN t.v ELSE 0)
    IN Counted(PyInt(Get(player_stats_raw, accurate_key, IntV(0))),
               PyInt(Get(player_stats_raw, total_key, IntV(0))))

----------------------------------------------------------------------------
(* Inputs of the normalizer *)

MaxCount == 6            \* counts S and T of a generated "S/T (P%)" run over 0..MaxCount
MaxPercentLiteral == 100 \* the literal P of a generated "S/T (P%)" runs over 0..MaxPercentLiteral
MaxPercentOver == 50     \* a generated "Z%" runs over -MaxPercentOver..100 + MaxPercentOver

\* "S/T (P%)" texts with larger counts: <<S, T, P>>
SpecimenFractions == {<<455, 524, 87>>, <<455, 524, 90>>, <<58, 116, 50>>, <<6, 109, 5>>, <<5, 111, 4>>}

NormInput(form, a, b, c, value) == [form |-> form, a |-> a, b |-> b, c |-> c, value |-> value]

FractionInputs ==
    {NormInput("fraction", x[1], x[2], x[3], StrV(FormatFraction(x[1], x[2], IntToStr(x[3])))) :
        x \in ((0..MaxCount) \X (0..MaxCount) \X (0..MaxPercentLiteral)) \cup SpecimenFractions}

\* "S/T ()": a fraction text whose percentage part is empty
BareFractionInputs ==
    {NormInput("fraction_nopct", x[1], x[2], 0,
               StrV(IntToStr(x[1]) \o <<"/">> \o IntToStr(x[2]) \o <<" ", "(", ")">>)) :
        x \in (0..MaxCount) \X (0..MaxCount)}

PercentInputs ==
    {NormInput("percent", z, 0, 0, StrV(IntToStr(z) \o <<"%">>)) : z \in (-MaxPercentOver)..(100 + MaxPercentOver)}

\* percentages with decimals and inner blanks
DecimalPercentTexts == {<<"5", "4", ".", "5", "%">>, <<"1", "2", ".", "3", "4", "%">>, <<"7", " ", "%">>}
\* numeric texts
NumericTexts == {<<"0">>, <<"7">>, <<"1", "2", ".", "3">>, <<"1", ",", "5">>, <<"1", ".", "0">>, <<"-", "3">>, <<" ", "4", "2", " ">>}
\* texts that are no well-formed fraction, percentage or number
MalformedTexts == {<<>>, <<" ">>, <<"N", "/", "A">>, <<"a", "b", "c">>, <<"a", "/", "b", " ", "(", "c", "%", ")">>, <<"1", "/", "2", "/", "3", " ", "(", "5", "%", ")">>, <<"a", "b", "c", "%">>, <<"1", "/", "2", " ", "(", "c", "%", ")">>, <<"1", ".", "5", "/", "3", " ", "(", "5", "0", "%", ")">>, <<"/", "(", ")">>, <<"1", "2", " ", "(", "3", "/", "4", ")">>, <<"1", "/", "2", ")", "(">>}

OtherInputs ==
    {NormInput("percent_text", 0, 0, 0, StrV(t)) : t \in DecimalPercentTexts}
    \cup {NormInput("numeric_text", 0, 0, 0, StrV(t)) : t \in NumericTexts}
    \cup {NormInput("numeric", n, 0, 0, IntV(n)) : n \in 0..MaxCount}
    \cup {NormInput("malformed", 0, 0, 0, StrV(t)) : t \in MalformedTexts}
    \cup {NormInput("none", 0, 0, 0, NoneV)}

NormInputs == FractionInputs \cup BareFractionInputs \cup PercentInputs \cup OtherInputs

----------------------------------------------------------------------------
(* The normalizer applied to one raw value, and the round trip of a fraction *)
(* record through its text form                                              *)

\* the components a specification does not exercise stay idle
NormIdle ==
    /\ nn_input = NoneV /\ nn_result = NoneV /\ nn_text = <<>> /\ nn_result2 = NoneV /\ nn_pc = "idle"
PlayersIdle ==
    /\ pl_lineup = NoneV /\ pl_parsed = NoneV /\ pl_formatted = <<>> /\ pl_pc = "idle"
TeamStatsIdle ==
    /\ ts_input = NoneV /\ ts_batch = <<>> /\ ts_pc = "idle"
MainIdle ==
    /\ source = <<>> /\ matches = <<>> /\ team_match_stats = <<>> /\ player_match_stats = <<>>
    /\ run_no = 0 /\ main_pc = "idle" /\ match_index = 0
    /\ match_details = NoneV /\ match_processing_failed = FALSE /\ player_stats_success = FALSE
    /\ team_aggregates = NoneV /\ stopped = FALSE
    /\ successful_team_stats_count = 0 /\ successful_player_stats_count = 0
    /\ successful_incidents_shots_count = 0 /\ failed_match_ids_detailed = {}
    /\ first_run = NoneV /\ outcomes = <<>>

EventsIdle ==
    /\ ev_source = NoneV /\ ev_args = NoneV /\ incidents_data = NoneV /\ shotmap_data = NoneV
    /\ success = TRUE /\ ev_pending = {} /\ ev_index = 0 /\ ev_pc = "idle" /\ ev_result = NoneV
    /\ players_table = <<>> /\ event_tables = <<>> /\ ev_log = <<>>
RoundsIdle ==
    /\ rd_events = <<>> /\ rd_pc = <<>> /\ rd_log = <<>> /\ results = <<>>
PoolIdle ==
    /\ db_pool = FALSE /\ pool_used = {} /\ pending = <<>> /\ committed = 0
    /\ cp_pc = "off" /\ cp_kind = "none" /\ conn = 0 /\ cp_failed = FALSE /\ cp_calls = 0
    /\ leaked = {} /\ unrolled = {}
SucceededIdle ==
    /\ succeeded_match_ids = {}
RerunsIdle ==
    /\ ev_runs = 0
DimensionsIdle ==
    /\ dim_tables = <<>> /\ dim_latest = <<>> /\ dim_calls = 0

NormInit ==
    /\ PlayersIdle /\ TeamStatsIdle /\ MainIdle /\ EventsIdle /\ RoundsIdle /\ DimensionsIdle /\ RerunsIdle /\ SucceededIdle /\ PoolIdle
    /\ nn_input \in NormInputs
    /\ nn_result = NoneV
    /\ nn_text = <<>>
    /\ nn_result2 = NoneV
    /\ nn_pc = "start"

Normalize ==
    /\ nn_pc = "start"
    /\ \E tie \in BOOLEAN : nn_result' = _convert_to_numeric(nn_input.value, tie)
    /\ nn_pc' = "normalized"
    /\ UNCHANGED <<nn_input, nn_text, nn_result2, nn_rest>>

\* the fraction record written back as "successful/total (percentage%)"
Serialize ==
    /\ nn_pc = "normalized"
    /\ IsDict(nn_result)
    /\ nn_text' = _format_stat_with_total_percentage("successful", "total",
                        [k \in {"successful", "total", "percentage"} |-> nn_result[k]])
    /\ nn_pc' = "serialized"
    /\ UNCHANGED <<nn_input, nn_result, nn_result2, nn_rest>>

Reparse ==
    /\ nn_pc = "serialized"
    /\ \E tie \in BOOLEAN : nn_result2' = _convert_to_numeric(StrV(nn_text), tie)
    /\ nn_pc' = "reparsed"
    /\ UNCHANGED <<nn_input, nn_result, nn_text, nn_rest>>

NormNext == Normalize \/ Serialize \/ Reparse

SpecNormalizer == NormInit /\ [][NormNext]_vars

----------------------------------------------------------------------------
(* Properties of the normalizer, under SpecNormalizer *)

Normalized == nn_pc \in {"normalized", "serialized", "reparsed"}
FractionForm == nn_input.form = "fraction"
\* a number that is a multiple of 1/10000, in units of 1/10000
Units(x) == NumOf(x) * (10000 \div DenOf(x))
\* value_str takes the "Successful/Total (Percentage%)" branch
FractionShaped(text) ==
    LET t == Strip(text, Whitespace)
    IN Contains(t, "/") /\ Contains(t, "(") /\ EndsWith(t, ")")

\* C2 as stated: for "S/T (P%)" with T > 0 the record has successful = S,
\* total = T and a percentage p with |p - S/T| <= 0.005.
C2_Original ==
    (Normalized /\ FractionForm /\ nn_input.b > 0) =>
        /\ nn_result.successful = IntV(nn_input.a)
        /\ nn_result.total = IntV(nn_input.b)
        /\ Abs(Units(nn_result.percentage) * nn_input.b - 10000 * nn_input.a) <= 50 * nn_input.b

\* C2 (amended): for "S/T (P%)" with T > 0 the record has successful = S,
\* total = T and a percentage p within 0.005 of S/T rounded to 4 decimals,
\* so that |p - S/T| <= 0.00505.
C2_FractionWithinRoundedTolerance ==
    (Normalized /\ FractionForm /\ nn_input.b > 0) =>
        /\ nn_result.successful = IntV(nn_input.a)
        /\ nn_result.total = IntV(nn_input.b)
        /\ Abs(Units(nn_result.percentage) - RoundHalfEven(10000 * nn_input.a, nn_input.b)) <= 50
        /\ 10 * Abs(Units(nn_result.percentage) * nn_input.b - 10000 * nn_input.a) <= 505 * nn_input.b

\* "455/524 (90%)" was normalized and its percentage recomputed to 0.8683
C2_Witness ==
    /\ Normalized /\ FractionForm
    /\ nn_input.a = 455 /\ nn_input.b = 524 /\ nn_input.c = 90
    /\ nn_result = FracV(IntV(455), IntV(524), FloatV(8683, 10000))

C6_Original ==
    (Normalized /\ IsDict(nn_result) /\ ~IsNone(nn_result.successful)) =>
        nn_result.successful.v <= nn_result.total.v

\* C6 (amended): the counts of "S/T (P%)" are copied as they are, successful = S
\* and total = T, so successful <= total holds exactly when S <= T.
C6_CountsCopiedVerbatim ==
    (Normalized /\ nn_input.form \in {"fraction", "fraction_nopct"}) =>
        /\ IsDict(nn_result)
        /\ nn_result.successful = IntV(nn_input.a)
        /\ nn_result.total = IntV(nn_input.b)
        /\ (nn_result.successful.v <= nn_result.total.v) <=> (nn_input.a <= nn_input.b)

\* "5/3 (50%)" was converted to a record with successful 5 and total 3
C6_Witness ==
    /\ Normalized /\ FractionForm
    /\ nn_input.a = 5 /\ nn_input.b = 3
    /\ nn_result.successful = IntV(5) /\ nn_result.total = IntV(3)

----------------------------------------------------------------------------
(* extractors/players_statistics_extractor.py: the player records of a       *)
(* lineup and the average rating of each team                                *)

\* API key and the statistic (or component) it feeds, in the order of the dict
SOFASCORE_PLAYER_STATS_MAP == <<
    <<"name", "Name">>, <<"shortName", "Short Name">>, <<"position", "Position">>,
    <<"jerseyNumber", "Jersey Number">>, <<"height", "Height">>, <<"country", "Country">>,
    <<"rating", "Rating">>, <<"minutesPlayed", "Minutes played">>, <<"touches", "Touches">>,
    <<"accuratePass", "accuratePass">>, <<"totalPass", "totalPass">>, <<"keyPass", "Key passes">>,
    <<"goalAssist", "Assists">>, <<"goals", "Goals">>, <<"expectedGoals", "Expected goals">>,
    <<"totalShoot", "Shots">>, <<"onTargetScoringAttempt", "Shots on target">>,
    <<"dribbleWon", "dribbleWon">>, <<"dribbleAttempt", "dribbleAttempt">>,
    <<"duelWon", "duelWon">>, <<"duelLost", "duelLost">>, <<"aerialWon", "Aerial duels won">>,
    <<"saves", "Saves">>, <<"punches", "Punches">>, <<"keeperSweeperWon", "keeperSweeperWon">>,
    <<"totalKeeperSweeper", "totalKeeperSweeper">>, <<"goodHighClaim", "High claims">>,
    <<"savedShotsFromInsideTheBox", "Saves from inside box">>,
    <<"accurateCross", "accurateCross">>, <<"totalCross", "totalCross">>,
    <<"accurateLongBalls", "accurateLongBalls">>, <<"totalLongBalls", "totalLongBalls">>,
    <<"totalClearance", "Clearances">>, <<"outfielderBlock", "Blocked shots">>,
    <<"interceptionWon", "Interceptions">>, <<"totalTackle", "Total tackles">>,
    <<"challengeLost", "Dribbled past">>, <<"groundDuelWon", "groundDuelWon">>,
    <<"groundDuelTotal", "groundDuelTotal">>, <<"aerialDuelWon", "aerialDuelWon">>,
    <<"aerialDuelTotal", "aerialDuelTotal">>, <<"fouls", "Fouls">>, <<"wasFouled", "Was fouled">>,
    <<"blockedScoringAttempt", "Shots blocked">>, <<"possessionLostCtrl", "Possession lost">>
>>

\* the characters of the statistic names, for the tests on their endings
TargetChars ==
    "Aerial duels won" :> <<"A", "e", "r", "i", "a", "l", " ", "d", "u", "e", "l", "s", " ", "w", "o", "n">> @@
    "Assists" :> <<"A", "s", "s", "i", "s", "t", "s">> @@
    "Blocked shots" :> <<"B", "l", "o", "c", "k", "e", "d", " ", "s", "h", "o", "t", "s">> @@
    "Clearances" :> <<"C", "l", "e", "a", "r", "a", "n", "c", "e", "s">> @@
    "Country" :> <<"C", "o", "u", "n", "t", "r", "y">> @@
    "Dribbled past" :> <<"D", "r", "i", "b", "b", "l", "e", "d", " ", "p", "a", "s", "t">> @@
    "Expected goals" :> <<"E", "x", "p", "e", "c", "t", "e", "d", " ", "g", "o", "a", "l", "s">> @@
    "Fouls" :> <<"F", "o", "u", "l", "s">> @@ "Goals" :> <<"G", "o", "a", "l", "s">> @@
    "Height" :> <<"H", "e", "i", "g", "h", "t">> @@
    "High claims" :> <<"H", "i", "g", "h", " ", "c", "l", "a", "i", "m", "s">> @@
    "Interceptions" :> <<"I", "n", "t", "e", "r", "c", "e", "p", "t", "i", "o", "n", "s">> @@
    "Jersey Number" :> <<"J", "e", "r", "s", "e", "y", " ", "N", "u", "m", "b", "e", "r">> @@
    "Key passes" :> <<"K", "e", "y", " ", "p", "a", "s", "s", "e", "s">> @@
    "Minutes played" :> <<"M", "i", "n", "u", "t", "e", "s", " ", "p", "l", "a", "y", "e", "d">> @@
    "Name" :> <<"N", "a", "m", "e">> @@ "Position" :> <<"P", "o", "s", "i", "t", "i", "o", "n">> @@
    "Possession lost" :> <<"P", "o", "s", "s", "e", "s", "s", "i", "o", "n", " ", "l", "o", "s", "t">> @@
    "Punches" :> <<"P", "u", "n", "c", "h", "e", "s">> @@
    "Rating" :> <<"R", "a", "t", "i", "n", "g">> @@ "Saves" :> <<"S", "a", "v", "e", "s">> @@
    "Saves from inside box" :> <<"S", "a", "v", "e", "s", " ", "f", "r", "o", "m", " ", "i", "n", "s", "i", "d", "e", " ", "b", "o", "x">> @@
    "Short Name" :> <<"S", "h", "o", "r", "t", " ", "N", "a", "m", "e">> @@
    "Shots" :> <<"S", "h", "o", "t", "s">> @@
    "Shots blocked" :> <<"S", "h", "o", "t", "s", " ", "b", "l", "o", "c", "k", "e", "d">> @@
    "Shots on target" :> <<"S", "h", "o", "t", "s", " ", "o", "n", " ", "t", "a", "r", "g", "e", "t">> @@
    "Total tackles" :> <<"T", "o", "t", "a", "l", " ", "t", "a", "c", "k", "l", "e", "s">> @@
    "Touches" :> <<"T", "o", "u", "c", "h", "e", "s">> @@
    "Was fouled" :> <<"W", "a", "s", " ", "f", "o", "u", "l", "e", "d">> @@
    "accurateCross" :> <<"a", "c", "c", "u", "r", "a", "t", "e", "C", "r", "o", "s", "s">> @@
    "accurateLongBalls" :> <<"a", "c", "c", "u", "r", "a", "t", "e", "L", "o", "n", "g", "B", "a", "l", "l", "s">> @@
    "accuratePass" :> <<"a", "c", "c", "u", "r", "a", "t", "e", "P", "a", "s", "s">> @@
    "aerialDuelTotal" :> <<"a", "e", "r", "i", "a", "l", "D", "u", "e", "l", "T", "o", "t", "a", "l">> @@
    "aerialDuelWon" :> <<"a", "e", "r", "i", "a", "l", "D", "u", "e", "l", "W", "o", "n">> @@
    "dribbleAttempt" :> <<"d", "r", "i", "b", "b", "l", "e", "A", "t", "t", "e", "m", "p", "t">> @@
    "dribbleWon" :> <<"d", "r", "i", "b", "b", "l", "e", "W", "o", "n">> @@
    "duelLost" :> <<"d", "u", "e", "l", "L", "o", "s", "t">> @@
    "duelWon" :> <<"d", "u", "e", "l", "W", "o", "n">> @@
    "groundDuelTotal" :> <<"g", "r", "o", "u", "n", "d", "D", "u", "e", "l", "T", "o", "t", "a", "l">> @@
    "groundDuelWon" :> <<"g", "r", "o", "u", "n", "d", "D", "u", "e", "l", "W", "o", "n">> @@
    "keeperSweeperWon" :> <<"k", "e", "e", "p", "e", "r", "S", "w", "e", "e", "p", "e", "r", "W", "o", "n">> @@
    "totalCross" :> <<"t", "o", "t", "a", "l", "C", "r", "o", "s", "s">> @@
    "totalKeeperSweeper" :> <<"t", "o", "t", "a", "l", "K", "e", "e", "p", "e", "r", "S", "w", "e", "e", "p", "e", "r">> @@
    "totalLongBalls" :> <<"t", "o", "t", "a", "l", "L", "o", "n", "g", "B", "a", "l", "l", "s">> @@
    "totalPass" :> <<"t", "o", "t", "a", "l", "P", "a", "s", "s">>

DEFAULT_PLAYER_STATS ==
    "proposedMarketValue" :> IntV(0) @@ "Rating" :> StrV(<<"N", "/", "A">>) @@
    "Minutes played" :> StrV(<<"0">>) @@ "Touches" :> StrV(<<"0">>) @@
    "Accurate passes" :> StrV(<<"0", "/", "0", " ", "(", "0", "%", ")">>) @@
    "Passes accuracy" :> StrV(<<"0", "%">>) @@ "Key passes" :> StrV(<<"0">>) @@
    "Assists" :> StrV(<<"0">>) @@ "Goals" :> StrV(<<"0">>) @@
    "Expected goals" :> StrV(<<"0", ".", "0", "0">>) @@ "Shots" :> StrV(<<"0">>) @@
    "Shots on target" :> StrV(<<"0">>) @@
    "Dribbles completed" :> StrV(<<"0", "/", "0", " ", "(", "0", "%", ")">>) @@
    "Duels won" :> StrV(<<"0", "/", "0", " ", "(", "0", "%", ")">>) @@
    "Aerial duels won" :> StrV(<<"0", "/", "0", " ", "(", "0", "%", ")">>) @@
    "Saves" :> StrV(<<"0">>) @@ "Punches" :> StrV(<<"0">>) @@
    "Runs out (succ.)" :> StrV(<<"0", "/", "0", " ", "(", "0", "%", ")">>) @@
    "High claims" :> StrV(<<"0">>) @@ "Saves from inside box" :> StrV(<<"0">>) @@
    "Crosses (acc.)" :> StrV(<<"0", "/", "0", " ", "(", "0", "%", ")">>) @@
    "Long balls (acc.)" :> StrV(<<"0", "/", "0", " ", "(", "0", "%", ")">>) @@
    "Clearances" :> StrV(<<"0">>) @@ "Blocked shots" :> StrV(<<"0">>) @@
    "Interceptions" :> StrV(<<"0">>) @@ "Total tackles" :> StrV(<<"0">>) @@
    "Dribbled past" :> StrV(<<"0">>) @@
    "Ground duels (won)" :> StrV(<<"0", "/", "0", " ", "(", "0", "%", ")">>) @@
    "Fouls" :> StrV(<<"0">>) @@ "Was fouled" :> StrV(<<"0">>) @@
    "Dribble attempts (succ.)" :> StrV(<<"0", "/", "0", " ", "(", "0", "%", ")">>)

FINAL_STATS_KEYS == DOMAIN DEFAULT_PLAYER_STATS

\* the keys _convert_stats_to_numeric copies unchanged
BasicKeys == {"player_id", "name", "short_name", "position", "jersey_number", "is_substitute"}

\* str.endswith(suffix)
EndsWithStr(s, suffix) ==
    Len(s) >= Len(suffix) /\ SubSeq(s, Len(s) - Len(suffix) + 1, Len(s)) = suffix

\* dict | {key: value}
Put(dict, key, value) == [k \in DOMAIN dict \cup {key} |-> IF k = key THEN value ELSE dict[k]]

\* Python truthiness of a value: not value
Falsy(value) ==
    CASE value.kind = "none" -> TRUE
      [] value.kind = "int" -> value.v = 0
      [] value.kind = "float" -> value.n = 0
      [] value.kind = "str" -> Len(value.s) = 0
      [] value.kind = "bool" -> ~value.b
      [] value.kind = "obj" -> DOMAIN value.items = {}
      [] value.kind = "list" -> Len(value.items) = 0
      [] value.kind = "text" -> value.text = ""
      [] OTHER -> FALSE

\* int(dict.get(key, 0)) inside try/except (ValueError, TypeError): pass
IntOrZero(dict, key) ==
    LET OrZero(r) == IF r.ok THEN r.v ELSE 0 IN OrZero(PyInt(Get(dict, key, IntV(0))))

\* val = dict.get(key); int(val) if val is not None, None when absent or not an int
IntOrNone(dict, key) ==
    LET Converted(r) == IF r.ok THEN IntV(r.v) ELSE NoneV
        OfValue(val) == IF IsNone(val) THEN NoneV ELSE Converted(PyInt(val))
    IN OfValue(Get(dict, key, NoneV))

\* the x/y of two floats, in lowest terms
Quotient(xn, xd, yn, yd) == FloatV(xn * yd, xd * yn)

_convert_stats_to_numeric(player_data) ==
    LET Divided(numerator, denominator) ==
            IF ~numerator.ok \/ ~denominator.ok THEN IntV(0)
            ELSE IF denominator.n = 0 THEN IntV(0)
            ELSE Quotient(numerator.n, numerator.d, denominator.n, denominator.d)
        OfPieces(pieces) == Divided(ParseFloat(pieces[1]), ParseFloat(Split(pieces[2], "(")[1]))
        Hundredth(f) == IF f.ok THEN FloatV(f.n, f.d * 100) ELSE IntV(0)
        Direct(f, value) == IF f.ok THEN FloatV(f.n, f.d) ELSE value
        Converted(key, value) ==
            IF key \in BasicKeys THEN value
            ELSE IF Falsy(value) \/ value = StrV(<<"N", "/", "A">>) THEN IntV(0)
            ELSE IF ~IsStr(value) THEN value
            ELSE IF Contains(value.s, "/") /\ Contains(value.s, "(") THEN OfPieces(Split(value.s, "/"))
            ELSE IF EndsWith(value.s, "%") THEN Hundredth(ParseFloat(RStrip(value.s, {"%"})))
            ELSE Direct(ParseFloat(value.s), value)
    IN [key \in DOMAIN player_data |-> Converted(key, player_data[key])]

\* the loop over SOFASCORE_PLAYER_STATS_MAP: an entry whose API key the source has
\* writes the text of its statistic to player_stats, unless the value is None,
\* and the raw value of a component to temp_raw_stats; of two entries with the
\* same target the later one is the one that stays
MapDirectStats(stats_raw, player_stats) ==
    LET Writing(target) ==
            {j \in 1..Len(SOFASCORE_PLAYER_STATS_MAP) :
                /\ SOFASCORE_PLAYER_STATS_MAP[j][2] = target
                /\ SOFASCORE_PLAYER_STATS_MAP[j][1] \in DOMAIN stats_raw}
        raw_value(j) == stats_raw[SOFASCORE_PLAYER_STATS_MAP[j][1]]
        Last(entries) == CHOOSE j \in entries : \A m \in entries : m <= j
        IsComponent(target) ==
            \/ \E suffix \in {<<"P", "a", "s", "s">>, <<"W", "o", "n">>, <<"L", "o", "s", "t">>,
                              <<"A", "t", "t", "e", "m", "p", "t">>,
                              <<"S", "w", "e", "e", "p", "e", "r">>} :
                   EndsWithStr(TargetChars[target], suffix)
            \/ target = "Aerial duels won"
        Text(entries, default) ==
            IF entries = {} THEN default ELSE StrV(PyStr(raw_value(Last(entries))))
    IN [player_stats |->
            [k \in DOMAIN player_stats |->
                Text({j \in Writing(k) : ~IsNone(raw_value(j))}, player_stats[k])],
        temp_raw_stats |->
            [k \in {SOFASCORE_PLAYER_STATS_MAP[j][2] : j \in 1..Len(SOFASCORE_PLAYER_STATS_MAP)}
                   \cap {target \in DOMAIN TargetChars : IsComponent(target) /\ Writing(target) # {}} |->
                raw_value(Last(Writing(k)))]]

\* f"{won}/{total} ({_calculate_percentage(won, total)}%)"
DuelText(won, total) == FormatFraction(won, total, IntToStr(_calculate_percentage(won, total)))

\* GroundDuelsText with the aerial duels left out of the derived total
GroundDuelsText_TotalOfAllDuels(stats_raw) ==
    LET Text(ground_won_direct_num, ground_total_direct_num, ground_won_calc, duel_total_num) ==
            IF ~IsNone(ground_won_direct_num) /\ ~IsNone(ground_total_direct_num)
            THEN DuelText(ground_won_direct_num.v, ground_total_direct_num.v)
            ELSE IF duel_total_num >= ground_won_calc /\ duel_total_num >= 0
                 THEN DuelText(ground_won_calc, duel_total_num)
                 ELSE <<"?", "/">> \o IntToStr(duel_total_num) \o <<" ", "(", "?", "%", ")">>
        Derived(duel_won_num, duel_lost_num, aerial_won_num) ==
            Text(IntOrNone(stats_raw, "groundDuelWon"), IntOrNone(stats_raw, "groundDuelTotal"),
                 duel_won_num - aerial_won_num, duel_won_num + duel_lost_num)
    IN Derived(IntOrZero(stats_raw, "duelWon"), IntOrZero(stats_raw, "duelLost"),
               IntOrZero(stats_raw, "aerialWon"))

\* the text of 'Ground duels (won)': the direct values when both are given,
\* else derived from the duels and the aerial duels
GroundDuelsText(stats_raw) ==
    LET Text(ground_won_direct_num, ground_total_direct_num, ground_won_calc, ground_total_calc) ==
            IF ~IsNone(ground_won_direct_num) /\ ~IsNone(ground_total_direct_num)
            THEN DuelText(ground_won_direct_num.v, ground_total_direct_num.v)
            ELSE IF ground_total_calc >= ground_won_calc /\ ground_total_calc >= 0
                 THEN DuelText(ground_won_calc, ground_total_calc)
                 ELSE <<"?", "/">> \o IntToStr(ground_total_calc) \o <<" ", "(", "?", "%", ")">>
        Derived(duel_won_num, duel_lost_num, aerial_won_num, aerial_lost_num) ==
            Text(IntOrNone(stats_raw, "groundDuelWon"), IntOrNone(stats_raw, "groundDuelTotal"),
                 duel_won_num - aerial_won_num,
                 (duel_won_num + duel_lost_num) - (aerial_won_num + aerial_lost_num))
    IN Derived(IntOrZero(stats_raw, "duelWon"), IntOrZero(stats_raw, "duelLost"),
               IntOrZero(stats_raw, "aerialWon"), IntOrZero(stats_raw, "aerialLost"))

\* a JSON object held where the code may also meet null
ObjV(items) == [kind |-> "obj", items |-> items]

\* what escapes _parse_player_lineup_data when .get is called on None
AttributeErrorV == [kind |-> "raised", error |-> "AttributeError"]

\* the body of the loop over the players of a team for one entry with statistics:
\* final_player_data before (formatted) and after (numeric) _convert_stats_to_numeric;
\* raised when proposedMarketValueRaw is null
BuildPlayer(player_entry) ==
    LET Built(final_player_data) ==
            [raised |-> FALSE, formatted |-> final_player_data,
             numeric |-> _convert_stats_to_numeric(final_player_data)]
        Final(stats_raw, player_stats, temp_raw_stats, dribbles, duel_won_num, duel_lost_num, aerial_won_num, aerial_lost_num) ==
            Built([k \in DOMAIN player_stats |->
                CASE k = "Accurate passes" ->
                        StrV(_format_stat_with_total_percentage("accuratePass", "totalPass", temp_raw_stats))
                  [] k = "Passes accuracy" ->
                        StrV(IntToStr(_calculate_percentage(IntOrZero(temp_raw_stats, "accuratePass"),
                                                            IntOrZero(temp_raw_stats, "totalPass"))) \o <<"%">>)
                  [] k = "Dribbles completed" -> StrV(dribbles)
                  [] k = "Dribble attempts (succ.)" -> StrV(dribbles)
                  [] k = "Long balls (acc.)" ->
                        StrV(_format_stat_with_total_percentage("accurateLongBalls", "totalLongBalls", temp_raw_stats))
                  [] k = "Crosses (acc.)" ->
                        StrV(_format_stat_with_total_percentage("accurateCross", "totalCross", temp_raw_stats))
                  [] k = "Runs out (succ.)" ->
                        StrV(_format_stat_with_total_percentage("keeperSweeperWon", "totalKeeperSweeper", temp_raw_stats))
                  [] k = "Duels won" -> StrV(DuelText(duel_won_num, duel_won_num + duel_lost_num))
                  [] k = "Aerial duels won" -> StrV(DuelText(aerial_won_num, aerial_won_num + aerial_lost_num))
                  [] k = "Ground duels (won)" -> StrV(GroundDuelsText(stats_raw))
                  [] OTHER -> player_stats[k]])
        Formatted(stats_raw, mapped) ==
            Final(stats_raw, mapped.player_stats, mapped.temp_raw_stats,
                  _format_stat_with_total_percentage("dribbleWon", "dribbleAttempt", mapped.temp_raw_stats),
                  IntOrZero(stats_raw, "duelWon"), IntOrZero(stats_raw, "duelLost"),
                  IntOrZero(stats_raw, "aerialWon"), IntOrZero(stats_raw, "aerialLost"))
        Basics(player_info, market_value_raw) ==
            [k \in DOMAIN DEFAULT_PLAYER_STATS \cup BasicKeys |->
                CASE k = "player_id" -> Get(player_info, "id", NoneV)
                  [] k = "name" -> Get(player_info, "name", NoneV)
                  [] k = "short_name" -> Get(player_info, "shortName", NoneV)
                  [] k = "position" -> Get(player_entry, "position", Get(player_info, "position", NoneV))
                  [] k = "jersey_number" -> Get(player_entry, "jerseyNumber", NoneV)
                  [] k = "is_substitute" -> Get(player_entry, "substitute", BoolV(FALSE))
                  [] k = "proposedMarketValue" -> Get(market_value_raw.items, "value", IntV(0))
                  [] OTHER -> DEFAULT_PLAYER_STATS[k]]
        Mapped(player_info, stats_raw, market_value_raw) ==
            IF IsNone(market_value_raw) THEN [raised |-> TRUE, formatted |-> <<>>, numeric |-> <<>>]
            ELSE Formatted(stats_raw,
                           MapDirectStats(stats_raw, Basics(player_info, market_value_raw)))
        OfInfo(player_info) ==
            Mapped(player_info, Get(player_entry, "statistics", EmptyDict),
                   Get(player_info, "proposedMarketValueRaw", ObjV(EmptyDict)))
    IN OfInfo(Get(player_entry, "player", EmptyDict))

\* the loop over the players of one team: the records built, their texts, the
\* ratings collected for the average, and whether an entry raised
RECURSIVE ProcessPlayers(_)
ProcessPlayers(entries) ==
    IF Len(entries) = 0
    THEN [raised |-> FALSE, players |-> <<>>, formatted |-> <<>>, ratings |-> <<>>]
    ELSE LET Collected(rest, built, rating_value) ==
                 [raised |-> rest.raised,
                  players |-> <<built.numeric>> \o rest.players,
                  formatted |-> <<built.formatted>> \o rest.formatted,
                  ratings |-> IF IsNumber(rating_value) /\ NumOf(rating_value) > 0
                              THEN <<FloatV(NumOf(rating_value), DenOf(rating_value))>> \o rest.ratings
                              ELSE rest.ratings]
             Added(rest, built) ==
                 IF built.raised THEN [rest EXCEPT !.raised = TRUE]
                 ELSE Collected(rest, built, built.numeric["Rating"])
             Step(player_entry, rest) ==
                 IF DOMAIN Get(player_entry, "statistics", EmptyDict) = {} THEN rest
                 ELSE Added(rest, BuildPlayer(player_entry))
         IN Step(Head(entries), ProcessPlayers(Tail(entries)))

\* sum(ratings), exactly
RECURSIVE SumFloats(_)
SumFloats(xs) ==
    IF Len(xs) = 0 THEN FloatV(0, 1)
    ELSE LET r == SumFloats(Tail(xs))
         IN FloatV(Head(xs).n * r.d + r.n * Head(xs).d, Head(xs).d * r.d)

\* round(n/d, 2); a value exactly half-way between two hundredths goes where its
\* binary float lies, which up stands for
Round2(n, d, up) ==
    LET q == (n * 100) \div d
        r == (n * 100) % d
    IN FloatV(IF 2 * r < d THEN q ELSE IF 2 * r > d THEN q + 1 ELSE IF up THEN q + 1 ELSE q, 100)

\* AverageRating with 0.0 instead of None for a team without ratings
AverageRating_ZeroForNone(ratings, up) ==
    LET Mean(total) == Round2(total.n, total.d * Len(ratings), up)
    IN IF Len(ratings) = 0 THEN FloatV(0, 1) ELSE Mean(SumFloats(ratings))

\* round(sum(ratings) / len(ratings), 2), None for no ratings
AverageRating(ratings, up) ==
    LET Mean(total) == Round2(total.n, total.d * Len(ratings), up)
    IN IF Len(ratings) = 0 THEN NoneV ELSE Mean(SumFloats(ratings))

TeamInfo(formation, sofascore_rating, players) ==
    [formation |-> formation, sofascore_rating |-> sofascore_rating, players |-> players]

_parse_player_lineup_data(lineup_data, up_home, up_away) ==
    IF IsNone(lineup_data) \/ DOMAIN lineup_data.items = {}
    THEN [home_team_info |-> TeamInfo(NoneV, NoneV, <<>>), away_team_info |-> TeamInfo(NoneV, NoneV, <<>>)]
    ELSE LET Parsed(home_data, away_data, home, away) ==
                 IF home.raised \/ away.raised THEN AttributeErrorV
                 ELSE [home_team_info |-> TeamInfo(Get(home_data, "formation", NoneV),
                                                   AverageRating(home.ratings, up_home), home.players),
                       away_team_info |-> TeamInfo(Get(away_data, "formation", NoneV),
                                                   AverageRating(away.ratings, up_away), away.players)]
             OfTeams(home_data, away_data) ==
                 Parsed(home_data, away_data, ProcessPlayers(Get(home_data, "players", <<>>)),
                        ProcessPlayers(Get(away_data, "players", <<>>)))
         IN OfTeams(Get(lineup_data.items, "home", EmptyDict), Get(lineup_data.items, "away", EmptyDict))

----------------------------------------------------------------------------
(* Lineup payloads *)

MaxPlayers == 3   \* a generated team has up to MaxPlayers rated players
MaxDuel == 1      \* the duel counts of a generated player run over 0..MaxDuel
MaxValued == 3    \* a generated team has up to MaxValued players with a market value choice

\* marks a key that a generated dict leaves out
AbsentV == [kind |-> "absent"]

\* the dict of the choices that are not AbsentV
StatsOf(choice) == [k \in {key \in DOMAIN choice : choice[key] # AbsentV} |-> choice[k]]

PlayerInfo(id, market) ==
    StatsOf([id |-> IntV(id), name |-> StrV(<<"P">>), shortName |-> StrV(<<"P">>),
             position |-> StrV(<<"M">>), proposedMarketValueRaw |-> market])

PlayerEntry(id, market, stats) ==
    [player |-> PlayerInfo(id, market), statistics |-> stats, position |-> StrV(<<"M">>),
     jerseyNumber |-> IntV(id), substitute |-> BoolV(FALSE)]

Lineup(home_players, away_players) ==
    ObjV([home |-> [formation |-> StrV(<<"4", "-", "4", "-", "2">>), players |-> home_players],
          away |-> [players |-> away_players]])

Valued == ObjV([value |-> IntV(5000000)])

\* the rating of a player in the payload
RatingChoices ==
    {AbsentV, NoneV, IntV(0), FloatV(72, 10), FloatV(68, 10), FloatV(725, 100), StrV(<<"a">>)}

RatedPlayer(id, rating) ==
    PlayerEntry(id, Valued, StatsOf([minutesPlayed |-> IntV(90), rating |-> rating]))

RatingLineups ==
    {Lineup([i \in 1..n |-> RatedPlayer(i, home[i])], away) :
        n \in 0..MaxPlayers, home \in [1..MaxPlayers -> RatingChoices],
        away \in {<<>>, <<RatedPlayer(9, FloatV(68, 10))>>, <<RatedPlayer(9, IntV(0))>>}}

DuelKeys == {"duelWon", "duelLost", "aerialWon", "aerialLost", "groundDuelWon", "groundDuelTotal"}

DuelChoice(dw, dl, aw, al, gw, gt) ==
    [duelWon |-> dw, duelLost |-> dl, aerialWon |-> aw, aerialLost |-> al,
     groundDuelWon |-> gw, groundDuelTotal |-> gt]

\* duel statistics with larger counts, null values and texts
DuelSpecimens ==
    {DuelChoice(IntV(58), IntV(58), IntV(12), IntV(15), AbsentV, AbsentV),
     DuelChoice(IntV(58), AbsentV, IntV(12), AbsentV, AbsentV, AbsentV),
     DuelChoice(IntV(58), IntV(58), IntV(12), IntV(15), IntV(40), AbsentV),
     DuelChoice(IntV(58), IntV(58), IntV(12), IntV(15), IntV(40), IntV(80)),
     DuelChoice(IntV(58), IntV(58), IntV(12), IntV(15), NoneV, NoneV),
     DuelChoice(StrV(<<"5", "8">>), IntV(58), StrV(<<"x">>), IntV(15), AbsentV, AbsentV),
     DuelChoice(NoneV, IntV(3), IntV(2), NoneV, AbsentV, IntV(4)),
     DuelChoice(IntV(0), IntV(2), IntV(1), IntV(0), AbsentV, AbsentV)}

DuelChoices == [DuelKeys -> {AbsentV} \cup {IntV(n) : n \in 0..MaxDuel}] \cup DuelSpecimens

DuelLineups ==
    {Lineup(<<PlayerEntry(1, Valued, StatsOf(Put(choice, "minutesPlayed", IntV(90))))>>, <<>>) :
        choice \in DuelChoices}

\* proposedMarketValueRaw of a player in the payload
MarketChoices ==
    {AbsentV, NoneV, ObjV(EmptyDict), Valued, ObjV([value |-> IntV(2000000)]), ObjV([value |-> NoneV])}

MarketLineups ==
    {Lineup([i \in 1..n |-> PlayerEntry(i, home[i], [minutesPlayed |-> IntV(90)])], <<>>) :
        n \in 0..MaxValued, home \in [1..MaxValued -> MarketChoices]}

\* a full set of statistics of one player
FullStats ==
    [rating |-> FloatV(72, 10), minutesPlayed |-> IntV(90), touches |-> IntV(61),
     accuratePass |-> IntV(31), totalPass |-> IntV(40), keyPass |-> IntV(2), goals |-> IntV(1),
     expectedGoals |-> FloatV(31, 100), totalShoot |-> IntV(3), dribbleWon |-> IntV(1),
     dribbleAttempt |-> IntV(3), duelWon |-> IntV(6), duelLost |-> IntV(5), aerialWon |-> IntV(2),
     aerialLost |-> IntV(1), keeperSweeperWon |-> IntV(0), totalKeeperSweeper |-> IntV(0),
     accurateCross |-> IntV(1), totalCross |-> IntV(4), accurateLongBalls |-> IntV(2),
     totalLongBalls |-> IntV(5), totalTackle |-> IntV(3), fouls |-> NoneV,
     possessionLostCtrl |-> IntV(9), name |-> StrV(<<"P">>)]

OtherLineups ==
    {NoneV, ObjV(EmptyDict), ObjV([home |-> EmptyDict]),
     ObjV([away |-> [formation |-> StrV(<<"3", "-", "5", "-", "2">>),
                     players |-> <<PlayerEntry(7, Valued, FullStats)>>]]),
     Lineup(<<PlayerEntry(4, Valued, [rating |-> StrV(<<"N", "/", "A">>), goals |-> IntV(2)])>>, <<>>),
     Lineup(<<PlayerEntry(1, Valued, FullStats), PlayerEntry(2, Valued, EmptyDict),
              [player |-> [id |-> IntV(3)]], [statistics |-> [minutesPlayed |-> IntV(12)]]>>,
            <<PlayerEntry(7, AbsentV, FullStats)>>)}

LineupInputs == RatingLineups \cup DuelLineups \cup MarketLineups \cup OtherLineups

----------------------------------------------------------------------------
(* _parse_player_lineup_data applied to one lineup payload *)

PlayersInit ==
    /\ NormIdle /\ TeamStatsIdle /\ MainIdle /\ EventsIdle /\ RoundsIdle /\ DimensionsIdle /\ RerunsIdle /\ SucceededIdle /\ PoolIdle
    /\ pl_lineup \in LineupInputs
    /\ pl_parsed = NoneV
    /\ pl_formatted = <<>>
    /\ pl_pc = "start"

ParseLineup ==
    /\ pl_pc = "start"
    /\ \E up_home, up_away \in BOOLEAN :
          pl_parsed' = _parse_player_lineup_data(pl_lineup, up_home, up_away)
    /\ pl_formatted' =
          IF IsNone(pl_lineup) THEN <<>>
          ELSE ProcessPlayers(Get(Get(pl_lineup.items, "home", EmptyDict), "players", <<>>)).formatted
    /\ pl_pc' = "parsed"
    /\ UNCHANGED <<pl_lineup, pl_rest>>

PlayersNext == ParseLineup

SpecPlayers == PlayersInit /\ [][PlayersNext]_vars

----------------------------------------------------------------------------
(* Properties of the player records, under SpecPlayers *)

Parsed == pl_pc = "parsed" /\ pl_parsed # AttributeErrorV

\* the entries of a side in the payload
EntriesOf(side) ==
    IF IsNone(pl_lineup) THEN <<>>
    ELSE Get(Get(pl_lineup.items, side, EmptyDict), "players", <<>>)

StatsOfEntry(entry) == Get(entry, "statistics", EmptyDict)

\* the ratings in the payload of a side that are numbers above 0
RECURSIVE PositiveRatings(_)
PositiveRatings(entries) ==
    IF Len(entries) = 0 THEN <<>>
    ELSE LET rating == Get(StatsOfEntry(Head(entries)), "rating", NoneV)
         IN (IF IsNumber(rating) /\ NumOf(rating) > 0
             THEN <<FloatV(NumOf(rating), DenOf(rating))>> ELSE <<>>)
            \o PositiveRatings(Tail(entries))

\* average is a multiple of 0.01 at most 0.005 away from the mean of ratings
NearestHundredthOfMean(average, ratings) ==
    LET sum == SumFloats(ratings)
        k == Len(ratings)
    IN /\ IsFloat(average) /\ 100 % average.d = 0
       /\ 2 * Abs(average.n * (100 \div average.d) * sum.d * k - 100 * sum.n) <= sum.d * k

AverageIsMeanOfPositive(side, info) ==
    LET ratings == PositiveRatings(EntriesOf(side))
    IN IF Len(ratings) = 0 THEN info.sofascore_rating = NoneV
       ELSE NearestHundredthOfMean(info.sofascore_rating, ratings)

\* C8: the average rating of each team is the mean, rounded to 2 decimals, of
\* exactly the player ratings above 0 (ratings that are 0, null, absent or no
\* number are left out), and null when the team has no rating above 0.
C8_AverageOfPositiveRatings ==
    Parsed =>
        /\ AverageIsMeanOfPositive("home", pl_parsed.home_team_info)
        /\ AverageIsMeanOfPositive("away", pl_parsed.away_team_info)

\* ratings [7.2, 6.8, 0] and one null gave the home average 7.0, and a team
\* whose only rating is 0 got null
C8_Witness ==
    /\ Parsed
    /\ Len(EntriesOf("home")) = 3
    /\ {Get(StatsOfEntry(EntriesOf("home")[i]), "rating", AbsentV) : i \in 1..3}
          = {FloatV(72, 10), FloatV(68, 10), IntV(0)}
    /\ pl_parsed.home_team_info.sofascore_rating = FloatV(7, 1)
    /\ Len(EntriesOf("away")) = 1
    /\ pl_parsed.away_team_info.sofascore_rating = NoneV

\* every home entry of the payload has statistics, so that the i-th record
\* built is the record of the i-th entry
HomeAligned ==
    /\ Parsed
    /\ \A i \in 1..Len(EntriesOf("home")) : DOMAIN StatsOfEntry(EntriesOf("home")[i]) # {}

\* a duel statistic of the payload is an integer, or null, or absent
PlainDuels(stats_raw) ==
    \A k \in DuelKeys \cap DOMAIN stats_raw : IsInt(stats_raw[k]) \/ IsNone(stats_raw[k])

Given(stats_raw, k) == k \in DOMAIN stats_raw /\ IsInt(stats_raw[k])
Count(stats_raw, k) == IF Given(stats_raw, k) THEN stats_raw[k].v ELSE 0
Ratio(x, y) == IF y = 0 THEN IntV(0) ELSE FloatV(x, y)
CountsText(x, y) == IntToStr(x) \o <<"/">> \o IntToStr(y) \o <<" ">>

DerivedGroundDuels(stats_raw) ==
    /\ PlainDuels(stats_raw)
    /\ "groundDuelWon" \notin DOMAIN stats_raw /\ "groundDuelTotal" \notin DOMAIN stats_raw
    /\ \A k \in {"duelWon", "duelLost", "aerialWon", "aerialLost"} : Count(stats_raw, k) >= 0

\* C11: with non-negative duelWon, duelLost, aerialWon and aerialLost and no
\* ground duels reported, the ground-duels value of the built record is never
\* negative, and when duels_won - aerials_won or duels_total - aerials_total
\* is negative, or the first exceeds the second, the value is null.
C11_GroundDuelsUnknownNotNegative ==
    HomeAligned =>
        \A i \in 1..Len(EntriesOf("home")) :
            LET stats_raw == StatsOfEntry(EntriesOf("home")[i])
                value == pl_parsed.home_team_info.players[i]["Ground duels (won)"]
                W == Count(stats_raw, "duelWon") - Count(stats_raw, "aerialWon")
                T == (Count(stats_raw, "duelWon") + Count(stats_raw, "duelLost"))
                       - (Count(stats_raw, "aerialWon") + Count(stats_raw, "aerialLost"))
            IN DerivedGroundDuels(stats_raw) =>
                 /\ ~(IsNumber(value) /\ NumOf(value) < 0)
                 /\ (W < 0 \/ T < 0 \/ W > T) => IsNone(value)

\* no duel won, two lost, one aerial duel won: the text is "-1/1 (-100%)" and
\* the record holds -1
C11_Witness ==
    /\ HomeAligned
    /\ Len(EntriesOf("home")) = 1
    /\ StatsOfEntry(EntriesOf("home")[1]) =
          [minutesPlayed |-> IntV(90), duelWon |-> IntV(0), duelLost |-> IntV(2),
           aerialWon |-> IntV(1), aerialLost |-> IntV(0)]
    /\ pl_formatted[1]["Ground duels (won)"] =
          StrV(<<"-", "1", "/", "1", " ", "(", "-", "1", "0", "0", "%", ")">>)
    /\ pl_parsed.home_team_info.players[1]["Ground duels (won)"] = FloatV(-1, 1)

----------------------------------------------------------------------------
(* extractors/statistics_extractor.py: the team stat tuples of a match       *)

STATS_NAME_MAP_API_TO_TEMP ==
    "Ball possession" :> "possession_percentage" @@ "Big chances" :> "big_chances" @@
    "Total shots" :> "total_shots" @@ "Goalkeeper saves" :> "saves" @@ "Total saves" :> "saves" @@
    "Corner kicks" :> "corners" @@ "Fouls" :> "fouls" @@ "Passes" :> "passes_complex" @@
    "Total tackles" :> "tackles_total_simple" @@ "Free kicks" :> "free_kicks" @@
    "Yellow cards" :> "yellow_cards" @@ "Red cards" :> "red_cards" @@
    "Shots on target" :> "shots_on_target" @@ "Hit woodwork" :> "hit_woodwork" @@
    "Shots off target" :> "shots_off_target" @@ "Blocked shots" :> "blocked_shots" @@
    "Shots inside box" :> "shots_inside_box" @@ "Shots outside box" :> "shots_outside_box" @@
    "Big chances missed" :> "big_chances_missed" @@
    "Fouled in final third" :> "fouled_final_third" @@ "Offsides" :> "offsides" @@
    "Accurate passes" :> "accurate_passes_percentage_complex" @@ "Throw-ins" :> "throw_ins" @@
    "Final third entries" :> "final_third_entries" @@ "Long balls" :> "long_balls_complex" @@
    "Crosses" :> "crosses_complex" @@ "Duels" :> "duels_won_complex" @@
    "Dispossessed" :> "dispossessed" @@ "Ground duels" :> "ground_duels_complex" @@
    "Aerial duels" :> "aerial_duels_complex" @@ "Dribbles" :> "dribbles_complex" @@
    "Tackles won" :> "tackles_won_details" @@ "Interceptions" :> "interceptions" @@
    "Clearances" :> "clearances" @@ "Goal kicks" :> "goal_kicks"

\* the columns of team_match_stats, in the order of the INSERT
TEAM_STATS_DB_ORDER == <<
    "match_id", "team_id", "is_home_team", "period", "formation", "average_team_rating",
    "total_team_market_value_eur", "possession_percentage", "big_chances", "total_shots", "saves",
    "corners", "fouls", "passes_successful", "passes_total", "passes_percentage",
    "tackles_successful", "tackles_total", "tackles_won_percentage", "free_kicks", "yellow_cards",
    "red_cards", "shots_on_target", "hit_woodwork", "shots_off_target", "blocked_shots",
    "shots_inside_box", "shots_outside_box", "big_chances_missed", "fouled_final_third",
    "offsides", "accurate_passes_percentage", "throw_ins", "final_third_entries",
    "long_balls_successful", "long_balls_total", "long_balls_percentage", "crosses_successful",
    "crosses_total", "crosses_percentage", "duels_won_successful", "duels_won_total",
    "duels_won_percentage", "dispossessed", "ground_duels_successful", "ground_duels_total",
    "ground_duels_percentage", "aerial_duels_successful", "aerial_duels_total",
    "aerial_duels_percentage", "dribbles_successful", "dribbles_total", "dribbles_percentage",
    "interceptions", "clearances", "goal_kicks"
>>

ColumnSet == {TEAM_STATS_DB_ORDER[i] : i \in 1..Len(TEAM_STATS_DB_ORDER)}

\* the characters of the column names, for the test that picks the default
ColumnChars ==
    "match_id" :> <<"m", "a", "t", "c", "h", "_", "i", "d">> @@
    "team_id" :> <<"t", "e", "a", "m", "_", "i", "d">> @@
    "is_home_team" :> <<"i", "s", "_", "h", "o", "m", "e", "_", "t", "e", "a", "m">> @@
    "period" :> <<"p", "e", "r", "i", "o", "d">> @@
    "formation" :> <<"f", "o", "r", "m", "a", "t", "i", "o", "n">> @@
    "average_team_rating" :> <<"a", "v", "e", "r", "a", "g", "e", "_", "t", "e", "a", "m", "_", "r", "a", "t", "i", "n", "g">> @@
    "total_team_market_value_eur" :> <<"t", "o", "t", "a", "l", "_", "t", "e", "a", "m", "_", "m", "a", "r", "k", "e", "t", "_", "v", "a", "l", "u", "e", "_", "e", "u", "r">> @@
    "possession_percentage" :> <<"p", "o", "s", "s", "e", "s", "s", "i", "o", "n", "_", "p", "e", "r", "c", "e", "n", "t", "a", "g", "e">> @@
    "big_chances" :> <<"b", "i", "g", "_", "c", "h", "a", "n", "c", "e", "s">> @@
    "total_shots" :> <<"t", "o", "t", "a", "l", "_", "s", "h", "o", "t", "s">> @@
    "saves" :> <<"s", "a", "v", "e", "s">> @@ "corners" :> <<"c", "o", "r", "n", "e", "r", "s">> @@
    "fouls" :> <<"f", "o", "u", "l", "s">> @@
    "passes_successful" :> <<"p", "a", "s", "s", "e", "s", "_", "s", "u", "c", "c", "e", "s", "s", "f", "u", "l">> @@
    "passes_total" :> <<"p", "a", "s", "s", "e", "s", "_", "t", "o", "t", "a", "l">> @@
    "passes_percentage" :> <<"p", "a", "s", "s", "e", "s", "_", "p", "e", "r", "c", "e", "n", "t", "a", "g", "e">> @@
    "tackles_successful" :> <<"t", "a", "c", "k", "l", "e", "s", "_", "s", "u", "c", "c", "e", "s", "s", "f", "u", "l">> @@
    "tackles_total" :> <<"t", "a", "c", "k", "l", "e", "s", "_", "t", "o", "t", "a", "l">> @@
    "tackles_won_percentage" :> <<"t", "a", "c", "k", "l", "e", "s", "_", "w", "o", "n", "_", "p", "e", "r", "c", "e", "n", "t", "a", "g", "e">> @@
    "free_kicks" :> <<"f", "r", "e", "e", "_", "k", "i", "c", "k", "s">> @@
    "yellow_cards" :> <<"y", "e", "l", "l", "o", "w", "_", "c", "a", "r", "d", "s">> @@
    "red_cards" :> <<"r", "e", "d", "_", "c", "a", "r", "d", "s">> @@
    "shots_on_target" :> <<"s", "h", "o", "t", "s", "_", "o", "n", "_", "t", "a", "r", "g", "e", "t">> @@
    "hit_woodwork" :> <<"h", "i", "t", "_", "w", "o", "o", "d", "w", "o", "r", "k">> @@
    "shots_off_target" :> <<"s", "h", "o", "t", "s", "_", "o", "f", "f", "_", "t", "a", "r", "g", "e", "t">> @@
    "blocked_shots" :> <<"b", "l", "o", "c", "k", "e", "d", "_", "s", "h", "o", "t", "s">> @@
    "shots_inside_box" :> <<"s", "h", "o", "t", "s", "_", "i", "n", "s", "i", "d", "e", "_", "b", "o", "x">> @@
    "shots_outside_box" :> <<"s", "h", "o", "t", "s", "_", "o", "u", "t", "s", "i", "d", "e", "_", "b", "o", "x">> @@
    "big_chances_missed" :> <<"b", "i", "g", "_", "c", "h", "a", "n", "c", "e", "s", "_", "m", "i", "s", "s", "e", "d">> @@
    "fouled_final_third" :> <<"f", "o", "u", "l", "e", "d", "_", "f", "i", "n", "a", "l", "_", "t", "h", "i", "r", "d">> @@
    "offsides" :> <<"o", "f", "f", "s", "i", "d", "e", "s">> @@
    "accurate_passes_percentage" :> <<"a", "c", "c", "u", "r", "a", "t", "e", "_", "p", "a", "s", "s", "e", "s", "_", "p", "e", "r", "c", "e", "n", "t", "a", "g", "e">> @@
    "throw_ins" :> <<"t", "h", "r", "o", "w", "_", "i", "n", "s">> @@
    "final_third_entries" :> <<"f", "i", "n", "a", "l", "_", "t", "h", "i", "r", "d", "_", "e", "n", "t", "r", "i", "e", "s">> @@
    "long_balls_successful" :> <<"l", "o", "n", "g", "_", "b", "a", "l", "l", "s", "_", "s", "u", "c", "c", "e", "s", "s", "f", "u", "l">> @@
    "long_balls_total" :> <<"l", "o", "n", "g", "_", "b", "a", "l", "l", "s", "_", "t", "o", "t", "a", "l">> @@
    "long_balls_percentage" :> <<"l", "o", "n", "g", "_", "b", "a", "l", "l", "s", "_", "p", "e", "r", "c", "e", "n", "t", "a", "g", "e">> @@
    "crosses_successful" :> <<"c", "r", "o", "s", "s", "e", "s", "_", "s", "u", "c", "c", "e", "s", "s", "f", "u", "l">> @@
    "crosses_total" :> <<"c", "r", "o", "s", "s", "e", "s", "_", "t", "o", "t", "a", "l">> @@
    "crosses_percentage" :> <<"c", "r", "o", "s", "s", "e", "s", "_", "p", "e", "r", "c", "e", "n", "t", "a", "g", "e">> @@
    "duels_won_successful" :> <<"d", "u", "e", "l", "s", "_", "w", "o", "n", "_", "s", "u", "c", "c", "e", "s", "s", "f", "u", "l">> @@
    "duels_won_total" :> <<"d", "u", "e", "l", "s", "_", "w", "o", "n", "_", "t", "o", "t", "a", "l">> @@
    "duels_won_percentage" :> <<"d", "u", "e", "l", "s", "_", "w", "o", "n", "_", "p", "e", "r", "c", "e", "n", "t", "a", "g", "e">> @@
    "dispossessed" :> <<"d", "i", "s", "p", "o", "s", "s", "e", "s", "s", "e", "d">> @@
    "ground_duels_successful" :> <<"g", "r", "o", "u", "n", "d", "_", "d", "u", "e", "l", "s", "_", "s", "u", "c", "c", "e", "s", "s", "f", "u", "l">> @@
    "ground_duels_total" :> <<"g", "r", "o", "u", "n", "d", "_", "d", "u", "e", "l", "s", "_", "t", "o", "t", "a", "l">> @@
    "ground_duels_percentage" :> <<"g", "r", "o", "u", "n", "d", "_", "d", "u", "e", "l", "s", "_", "p", "e", "r", "c", "e", "n", "t", "a", "g", "e">> @@
    "aerial_duels_successful" :> <<"a", "e", "r", "i", "a", "l", "_", "d", "u", "e", "l", "s", "_", "s", "u", "c", "c", "e", "s", "s", "f", "u", "l">> @@
    "aerial_duels_total" :> <<"a", "e", "r", "i", "a", "l", "_", "d", "u", "e", "l", "s", "_", "t", "o", "t", "a", "l">> @@
    "aerial_duels_percentage" :> <<"a", "e", "r", "i", "a", "l", "_", "d", "u", "e", "l", "s", "_", "p", "e", "r", "c", "e", "n", "t", "a", "g", "e">> @@
    "dribbles_successful" :> <<"d", "r", "i", "b", "b", "l", "e", "s", "_", "s", "u", "c", "c", "e", "s", "s", "f", "u", "l">> @@
    "dribbles_total" :> <<"d", "r", "i", "b", "b", "l", "e", "s", "_", "t", "o", "t", "a", "l">> @@
    "dribbles_percentage" :> <<"d", "r", "i", "b", "b", "l", "e", "s", "_", "p", "e", "r", "c", "e", "n", "t", "a", "g", "e">> @@
    "interceptions" :> <<"i", "n", "t", "e", "r", "c", "e", "p", "t", "i", "o", "n", "s">> @@
    "clearances" :> <<"c", "l", "e", "a", "r", "a", "n", "c", "e", "s">> @@
    "goal_kicks" :> <<"g", "o", "a", "l", "_", "k", "i", "c", "k", "s">>

\* temp key and the column it is copied to
SimpleMappings == <<
    <<"possession_percentage", "possession_percentage">>, <<"big_chances", "big_chances">>,
    <<"total_shots", "total_shots">>, <<"saves", "saves">>, <<"corners", "corners">>,
    <<"fouls", "fouls">>, <<"free_kicks", "free_kicks">>, <<"yellow_cards", "yellow_cards">>,
    <<"red_cards", "red_cards">>, <<"shots_on_target", "shots_on_target">>,
    <<"hit_woodwork", "hit_woodwork">>, <<"shots_off_target", "shots_off_target">>,
    <<"blocked_shots", "blocked_shots">>, <<"shots_inside_box", "shots_inside_box">>,
    <<"shots_outside_box", "shots_outside_box">>, <<"big_chances_missed", "big_chances_missed">>,
    <<"fouled_final_third", "fouled_final_third">>, <<"offsides", "offsides">>,
    <<"throw_ins", "throw_ins">>, <<"final_third_entries", "final_third_entries">>,
    <<"dispossessed", "dispossessed">>, <<"interceptions", "interceptions">>,
    <<"clearances", "clearances">>, <<"goal_kicks", "goal_kicks">>,
    <<"tackles_total_simple", "tackles_total">>
>>

\* temp key of a composite statistic and its three columns
ComplexMappings == <<
    <<"passes_complex", "passes_successful", "passes_total", "passes_percentage">>,
    <<"long_balls_complex", "long_balls_successful", "long_balls_total", "long_balls_percentage">>,
    <<"crosses_complex", "crosses_successful", "crosses_total", "crosses_percentage">>,
    <<"duels_won_complex", "duels_won_successful", "duels_won_total", "duels_won_percentage">>,
    <<"ground_duels_complex", "ground_duels_successful", "ground_duels_total", "ground_duels_percentage">>,
    <<"aerial_duels_complex", "aerial_duels_successful", "aerial_duels_total", "aerial_duels_percentage">>,
    <<"dribbles_complex", "dribbles_successful", "dribbles_total", "dribbles_percentage">>,
    <<"tackles_complex", "tackles_successful", "tackles_total", "tackles_won_percentage">>
>>

\* a column whose name holds one of these gets 0 in place of None
ZeroDefaultPatterns == {
    <<"_", "s", "u", "c", "c", "e", "s", "s", "f", "u", "l">>, <<"_", "t", "o", "t", "a", "l">>,
    <<"_", "c", "a", "r", "d", "s">>, <<"_", "k", "i", "c", "k", "s">>,
    <<"s", "h", "o", "t", "s", "_">>, <<"c", "h", "a", "n", "c", "e", "s">>,
    <<"f", "o", "u", "l", "s">>, <<"c", "o", "r", "n", "e", "r", "s">>,
    <<"s", "a", "v", "e", "s">>, <<"o", "f", "f", "s", "i", "d", "e", "s">>,
    <<"t", "h", "r", "o", "w", "_", "i", "n", "s">>, <<"e", "n", "t", "r", "i", "e", "s">>,
    <<"d", "i", "s", "p", "o", "s", "s", "e", "s", "s", "e", "d">>,
    <<"i", "n", "t", "e", "r", "c", "e", "p", "t", "i", "o", "n", "s">>,
    <<"c", "l", "e", "a", "r", "a", "n", "c", "e", "s">>
}

\* pat in s
HasSubstring(s, pat) ==
    \E i \in 1..(Len(s) - Len(pat) + 1) : SubSeq(s, i, i + Len(pat) - 1) = pat

ZeroDefaultColumns ==
    {key \in ColumnSet : \E pat \in ZeroDefaultPatterns : HasSubstring(ColumnChars[key], pat)}

PeriodCodes == <<"ALL", "1ST", "2ND">>
TeamLocs == <<"home", "away">>

\* the value stored for "Tackles won": a dict from the Value and Total fields of the side
TacklesWonDetails(item, team_loc) ==
    LET successful == Get(item, IF team_loc = "home" THEN "homeValue" ELSE "awayValue", NoneV)
        total == Get(item, IF team_loc = "home" THEN "homeTotal" ELSE "awayTotal", NoneV)
        total_int == PyInt(total)
        successful_int == PyInt(successful)
        percentage ==
            IF ~IsNone(total) /\ ~IsNone(successful) /\ total_int.ok /\ successful_int.ok /\ total_int.v > 0
            THEN Round4(successful_int.v, total_int.v)
            ELSE NoneV
    IN FracV(_safe_to_int(successful), _safe_to_int(total), percentage)

\* the items of all groups of a period object, in order
RECURSIVE ItemsOfGroups(_)
ItemsOfGroups(groups) ==
    IF Len(groups) = 0 THEN <<>>
    ELSE Get(Head(groups), "statisticsItems", <<>>) \o ItemsOfGroups(Tail(groups))

\* first pass over the items of one period: stats is {team_loc: {temp_key: value}}
RECURSIVE StoreItems(_, _, _)
StoreItems(items, stats, tie) ==
    IF Len(items) = 0 THEN stats
    ELSE LET item == Head(items)
             known == "name" \in DOMAIN item /\ item.name \in DOMAIN STATS_NAME_MAP_API_TO_TEMP
             temp_key == STATS_NAME_MAP_API_TO_TEMP[item.name]
             converted(team_loc) ==
                 IF temp_key = "tackles_won_details" THEN TacklesWonDetails(item, team_loc)
                 ELSE _convert_to_numeric(Get(item, team_loc, NoneV), tie)
         IN StoreItems(Tail(items),
                       IF known THEN [team_loc \in {"home", "away"} |->
                                         Put(stats[team_loc], temp_key, converted(team_loc))]
                       ELSE stats,
                       tie)

\* first pass: temp_stats_data, {period: {team_loc: {temp_key: value}}}
RECURSIVE FirstPass(_, _, _)
FirstPass(statistics_json_list, temp_stats_data, tie) ==
    IF Len(statistics_json_list) = 0 THEN temp_stats_data
    ELSE LET period_stats_obj == Head(statistics_json_list)
             known == "period" \in DOMAIN period_stats_obj
                      /\ period_stats_obj.period \in DOMAIN temp_stats_data
         IN FirstPass(Tail(statistics_json_list),
                      IF known
                      THEN [temp_stats_data EXCEPT ![period_stats_obj.period] =
                               StoreItems(ItemsOfGroups(Get(period_stats_obj, "groups", <<>>)), @, tie)]
                      ELSE temp_stats_data,
                      tie)

\* second pass for one period and side: final_stats_map, then the tuple
StatTuple(stats, match_id, team_id, is_home, period_code) ==
    LET initial ==
            [key \in ColumnSet |->
                CASE key = "match_id" -> IntV(match_id)
                  [] key = "team_id" -> IntV(team_id)
                  [] key = "is_home_team" -> BoolV(is_home)
                  [] key = "period" -> StrV(period_code)
                  [] OTHER -> NoneV]
        simple ==
            [key \in ColumnSet |->
                IF \E i \in 1..Len(SimpleMappings) :
                      SimpleMappings[i][2] = key /\ SimpleMappings[i][1] \in DOMAIN stats
                THEN LET i == CHOOSE i \in 1..Len(SimpleMappings) : SimpleMappings[i][2] = key
                         value == stats[SimpleMappings[i][1]]
                     IN IF IsDict(value) THEN NoneV ELSE value
                ELSE initial[key]]
        complex ==
            [key \in ColumnSet |->
                IF \E i \in 1..Len(ComplexMappings) : \E j \in 2..4 : ComplexMappings[i][j] = key
                THEN LET i == CHOOSE i \in 1..Len(ComplexMappings) : \E j \in 2..4 : ComplexMappings[i][j] = key
                         complex_key == ComplexMappings[i][1]
                         s_key == ComplexMappings[i][2]
                         t_key == ComplexMappings[i][3]
                         p_key == ComplexMappings[i][4]
                         complex_value == Get(stats, complex_key, NoneV)
                     IN IF IsDict(complex_value)
                        THEN (IF key = s_key THEN complex_value.successful
                              ELSE IF key = t_key THEN complex_value.total
                              ELSE complex_value.percentage)
                        ELSE IF IsNumber(complex_value)
                        THEN (IF complex_key = "duels_won_complex" /\ IsFloat(complex_value)
                                 /\ complex_value.n <= complex_value.d
                              THEN (IF key = p_key THEN complex_value ELSE simple[key])
                              ELSE (IF key = t_key THEN complex_value ELSE simple[key]))
                        ELSE simple[key]
                ELSE simple[key]]
        acc_pass_val == Get(stats, "accurate_passes_percentage_complex", NoneV)
        passes_complex == Get(stats, "passes_complex", NoneV)
        accurate ==
            [key \in ColumnSet |->
                IF IsDict(acc_pass_val)
                THEN (CASE key = "accurate_passes_percentage" -> acc_pass_val.percentage
                        [] key = "passes_successful" /\ IsNone(complex[key]) -> acc_pass_val.successful
                        [] key = "passes_total" /\ IsNone(complex[key]) -> acc_pass_val.total
                        [] OTHER -> complex[key])
                ELSE IF IsNumber(acc_pass_val)
                THEN (IF key = "accurate_passes_percentage" THEN acc_pass_val ELSE complex[key])
                ELSE IF IsDict(passes_complex)
                THEN (IF key = "accurate_passes_percentage" THEN passes_complex.percentage ELSE complex[key])
                ELSE complex[key]]
        tackles_won_data == Get(stats, "tackles_won_details", NoneV)
        tackles_total_simple == Get(stats, "tackles_total_simple", NoneV)
        final_stats_map ==
            [key \in ColumnSet |->
                IF IsDict(tackles_won_data)
                THEN (CASE key = "tackles_successful" -> tackles_won_data.successful
                        [] key = "tackles_total" ->
                              IF ~IsNone(tackles_won_data.total) THEN tackles_won_data.total
                              ELSE tackles_total_simple
                        [] key = "tackles_won_percentage" -> tackles_won_data.percentage
                        [] OTHER -> accurate[key])
                ELSE (IF key = "tackles_total" THEN tackles_total_simple ELSE accurate[key])]
    IN [i \in 1..Len(TEAM_STATS_DB_ORDER) |->
           LET key == TEAM_STATS_DB_ORDER[i]
               value == final_stats_map[key]
           IN IF IsNone(value) /\ key \in ZeroDefaultColumns THEN IntV(0) ELSE value]

\* _parse_statistics_data that makes tuples only for the periods of the payload
_parse_statistics_data_OnlyPeriodsOfPayload(statistics_json_list, match_id, home_team_id, away_team_id, tie) ==
    LET temp_stats_data ==
            FirstPass(statistics_json_list,
                      [period_code \in {"ALL", "1ST", "2ND"} |->
                          [team_loc \in {"home", "away"} |-> EmptyDict]],
                      tie)
        InPayload(period_code) ==
            \E i \in 1..Len(statistics_json_list) :
               /\ "period" \in DOMAIN statistics_json_list[i]
               /\ statistics_json_list[i].period = period_code
    IN SelectSeq([n \in 1..6 |->
                    LET period_code == PeriodCodes[((n - 1) \div 2) + 1]
                        team_loc == TeamLocs[((n - 1) % 2) + 1]
                    IN StatTuple(temp_stats_data[period_code][team_loc], match_id,
                                 IF team_loc = "home" THEN home_team_id ELSE away_team_id,
                                 team_loc = "home", period_code)],
                 LAMBDA t : \E period_code \in {"ALL", "1ST", "2ND"} :
                               InPayload(period_code) /\ t[4] = StrV(period_code))

\* one tuple per period and side, in the order ALL, 1ST, 2ND and home, away
_parse_statistics_data(statistics_json_list, match_id, home_team_id, away_team_id, tie) ==
    LET temp_stats_data ==
            FirstPass(statistics_json_list,
                      [period_code \in {"ALL", "1ST", "2ND"} |->
                          [team_loc \in {"home", "away"} |-> EmptyDict]],
                      tie)
    IN [n \in 1..6 |->
           LET period_code == PeriodCodes[((n - 1) \div 2) + 1]
               team_loc == TeamLocs[((n - 1) % 2) + 1]
           IN StatTuple(temp_stats_data[period_code][team_loc], match_id,
                        IF team_loc = "home" THEN home_team_id ELSE away_team_id,
                        team_loc = "home", period_code)]

----------------------------------------------------------------------------
(* Statistics payloads *)

\* a statistics item with the texts of the two sides
Item(name, home, away) == [name |-> name] @@ StatsOf([home |-> home, away |-> away])

\* a period object with one group
Period(code, items) == [period |-> code, groups |-> <<[statisticsItems |-> items]>>]

\* form: how the list was made; zn/zd: the Z of a "Z%" possession text; period: where it is
StatsInput(form, zn, zd, period, list) ==
    [form |-> form, zn |-> zn, zd |-> zd, period |-> period, list |-> list,
     match_id |-> 1001, home_team_id |-> 10, away_team_id |-> 20]

PercentText(z) == StrV(IntToStr(z) \o <<"%">>)

\* "Ball possession" with home "Z%" and away "(100 - Z)%"
PossessionInputs ==
    {StatsInput("possession", z, 1, p, <<Period(p, <<Item("Ball possession", PercentText(z), PercentText(100 - z))>>)>>) :
        z \in (-MaxPercentOver)..(100 + MaxPercentOver), p \in {"ALL", "1ST", "2ND"}}
    \cup {StatsInput("possession", 545, 10, "ALL",
                     <<Period("ALL", <<Item("Ball possession", StrV(<<"5", "4", ".", "5", "%">>), StrV(<<"4", "5", ".", "5", "%">>))>>)>>),
          StatsInput("possession", 12346, 1000, "1ST",
                     <<Period("1ST", <<Item("Ball possession", StrV(<<"1", "2", ".", "3", "4", "6", "%">>), StrV(<<"8", "7", ".", "6", "5", "4", "%">>))>>)>>)}

\* what one side of an item can hold
ItemValues == {
    AbsentV, NoneV, IntV(7), FloatV(52, 100), FloatV(3, 2),
    StrV(<<"4", "5", "5", "/", "5", "2", "4", " ", "(", "8", "7", "%", ")">>),
    StrV(<<"4", "5", "5", "/", "5", "2", "4", " ", "(", "9", "0", "%", ")">>),
    StrV(<<"6", "/", "1", "0", "9", " ", "(", "5", "%", ")">>),
    StrV(<<"3", "/", "0", " ", "(", "0", "%", ")">>),
    StrV(<<"a", "/", "b", " ", "(", "c", "%", ")">>), StrV(<<"1", "2">>), StrV(<<"0">>),
    StrV(<<"0", ".", "5", "2">>), StrV(<<"1", ",", "5">>), StrV(<<"8", "7", "%">>),
    StrV(<<"N", "/", "A">>), StrV(<<>>)
}

\* one known or unknown statistic with each value
ItemInputs ==
    {StatsInput("item", 0, 1, "ALL", <<Period("ALL", <<Item(name, home, StrV(<<"3">>))>>)>>) :
        name \in DOMAIN STATS_NAME_MAP_API_TO_TEMP \cup {"Unknown statistic"}, home \in ItemValues}

\* what homeValue and homeTotal of "Tackles won" can hold
TackleValues == {AbsentV, NoneV, IntV(0), IntV(2), IntV(3), StrV(<<"3">>), StrV(<<"x">>), FloatV(5, 2)}

TotalTacklesItems ==
    {<<>>, <<Item("Total tackles", StrV(<<"1", "7">>), StrV(<<"9">>))>>,
     <<Item("Total tackles", StrV(<<"9", "/", "1", "7", " ", "(", "5", "3", "%", ")">>), NoneV)>>}

TacklesInputs ==
    {StatsInput("tackles", 0, 1, "ALL",
                <<Period("ALL", <<[name |-> "Tackles won"] @@
                                  StatsOf([home |-> StrV(<<"6", "7", "%">>),
                                           homeValue |-> v, homeTotal |-> t,
                                           awayValue |-> IntV(4), awayTotal |-> IntV(8)])>> \o others)>>) :
        v \in TackleValues, t \in TackleValues, others \in TotalTacklesItems}

\* the items of a whole match
MatchItems ==
    <<Item("Ball possession", PercentText(54), PercentText(46)),
      Item("Passes", StrV(<<"4", "5", "5", "/", "5", "2", "4", " ", "(", "8", "7", "%", ")">>), StrV(<<"3", "0", "1", "/", "3", "9", "0", " ", "(", "7", "7", "%", ")">>)),
      Item("Accurate passes", StrV(<<"4", "5", "5", "/", "5", "2", "4", " ", "(", "8", "7", "%", ")">>), StrV(<<"8", "1", "%">>)),
      Item("Total shots", IntV(14), IntV(9)),
      Item("Goalkeeper saves", IntV(3), IntV(5)),
      Item("Total saves", IntV(4), AbsentV),
      Item("Duels", StrV(<<"5", "2", "%">>), StrV(<<"4", "8", "%">>)),
      Item("Ground duels", StrV(<<"4", "6", "/", "8", "9", " ", "(", "5", "2", "%", ")">>), StrV(<<"4", "3", "/", "8", "9", " ", "(", "4", "8", "%", ")">>)),
      Item("Yellow cards", IntV(2), IntV(0))>>

OtherStatsInputs ==
    {StatsInput("other", 0, 1, "ALL", list) : list \in
        {<<>>,
         <<Period("ALL", MatchItems), Period("1ST", SubSeq(MatchItems, 1, 4)), Period("2ND", SubSeq(MatchItems, 4, 9))>>,
         <<Period("ET1", MatchItems)>>,
         <<[groups |-> <<[statisticsItems |-> MatchItems]>>]>>,
         <<[period |-> "ALL"]>>,
         <<[period |-> "2ND", groups |-> <<[name |-> "Match overview"], [statisticsItems |-> SubSeq(MatchItems, 1, 2)],
                                           [statisticsItems |-> <<[home |-> IntV(1)], Item("Corner kicks", IntV(5), IntV(6))>>]>>]>>,
         <<Period("ALL", SubSeq(MatchItems, 1, 2)), Period("ALL", <<Item("Passes", StrV(<<"3", "0", "1", "/", "3", "9", "0", " ", "(", "7", "7", "%", ")">>), NoneV)>>)>>}}

StatsInputs == PossessionInputs \cup ItemInputs \cup TacklesInputs \cup OtherStatsInputs

----------------------------------------------------------------------------
(* _parse_statistics_data applied to one statistics payload *)

TeamStatsInit ==
    /\ NormIdle /\ PlayersIdle /\ MainIdle /\ EventsIdle /\ RoundsIdle /\ DimensionsIdle /\ RerunsIdle /\ SucceededIdle /\ PoolIdle
    /\ ts_input \in StatsInputs
    /\ ts_batch = <<>>
    /\ ts_pc = "start"

ParseStatistics ==
    /\ ts_pc = "start"
    /\ \E tie \in BOOLEAN :
          ts_batch' = _parse_statistics_data(ts_input.list, ts_input.match_id, ts_input.home_team_id,
                                            ts_input.away_team_id, tie)
    /\ ts_pc' = "parsed"
    /\ UNCHANGED <<ts_input, ts_rest>>

TeamStatsNext == ParseStatistics

SpecTeamStats == TeamStatsInit /\ [][TeamStatsNext]_vars

----------------------------------------------------------------------------
(* Properties of the team stat tuples, under SpecTeamStats *)

StatsParsed == ts_pc = "parsed"

\* the position of a column in the tuple
ColumnIndex(key) == CHOOSE i \in 1..Len(TEAM_STATS_DB_ORDER) : TEAM_STATS_DB_ORDER[i] = key

\* the tuple of a period and side of the batch, and one of its columns
TupleOf(batch, period_code, team_loc) ==
    batch[CHOOSE n \in 1..Len(batch) :
             /\ batch[n][ColumnIndex("period")] = StrV(period_code)
             /\ batch[n][ColumnIndex("is_home_team")] = BoolV(team_loc = "home")]
ColumnOf(batch, period_code, team_loc, key) == TupleOf(batch, period_code, team_loc)[ColumnIndex(key)]

PossessionForm == ts_input.form = "possession"
HomePossession == ColumnOf(ts_batch, ts_input.period, "home", "possession_percentage")
AwayPossession == ColumnOf(ts_batch, ts_input.period, "away", "possession_percentage")
InUnitInterval(x) == 0 <= NumOf(x) /\ NumOf(x) <= DenOf(x)

----------------------------------------------------------------------------
(* database_utils/db_utils.py: the stat tables and their batch upserts.      *)
(* A table is the sequence of its rows, a row a dict from column to value,   *)
(* so that a second row for a key is a state the model can tell apart.       *)

\* the columns of INSERT INTO team_match_stats, its conflict key and the
\* columns of DO UPDATE SET
TeamStatsColumns == <<
    "match_id", "team_id", "is_home_team", "period", "formation", "average_team_rating",
    "total_team_market_value_eur", "possession_percentage", "big_chances", "total_shots", "saves",
    "corners", "fouls", "passes_successful", "passes_total", "passes_percentage",
    "tackles_successful", "tackles_total", "tackles_won_percentage", "free_kicks", "yellow_cards",
    "red_cards", "shots_on_target", "hit_woodwork", "shots_off_target", "blocked_shots",
    "shots_inside_box", "shots_outside_box", "big_chances_missed", "fouled_final_third",
    "offsides", "accurate_passes_percentage", "throw_ins", "final_third_entries",
    "long_balls_successful", "long_balls_total", "long_balls_percentage", "crosses_successful",
    "crosses_total", "crosses_percentage", "duels_won_successful", "duels_won_total",
    "duels_won_percentage", "dispossessed", "ground_duels_successful", "ground_duels_total",
    "ground_duels_percentage", "aerial_duels_successful", "aerial_duels_total",
    "aerial_duels_percentage", "dribbles_successful", "dribbles_total", "dribbles_percentage",
    "interceptions", "clearances", "goal_kicks"
>>
TeamStatsPlaceholders == 56
TeamStatsKey == {"match_id", "team_id", "period"}
TeamStatsSet == {
    "formation", "average_team_rating", "total_team_market_value_eur", "possession_percentage",
    "big_chances", "total_shots", "saves", "corners", "fouls", "passes_successful", "passes_total",
    "passes_percentage", "tackles_successful", "tackles_total", "tackles_won_percentage",
    "free_kicks", "yellow_cards", "red_cards", "shots_on_target", "hit_woodwork",
    "shots_off_target", "blocked_shots", "shots_inside_box", "shots_outside_box",
    "big_chances_missed", "fouled_final_third", "offsides", "accurate_passes_percentage",
    "throw_ins", "final_third_entries", "long_balls_successful", "long_balls_total",
    "long_balls_percentage", "crosses_successful", "crosses_total", "crosses_percentage",
    "duels_won_successful", "duels_won_total", "duels_won_percentage", "dispossessed",
    "ground_duels_successful", "ground_duels_total", "ground_duels_percentage",
    "aerial_duels_successful", "aerial_duels_total", "aerial_duels_percentage",
    "dribbles_successful", "dribbles_total", "dribbles_percentage", "interceptions", "clearances",
    "goal_kicks"
}

\* the same of INSERT INTO player_match_stats
PlayerStatsColumns == <<
    "match_id", "player_id", "team_id", "is_substitute", "played_position", "jersey_number",
    "market_value_eur_at_match", "sofascore_rating", "minutes_played", "touches", "goals",
    "assists", "own_goals", "passes_accurate", "passes_total", "passes_key", "long_balls_accurate",
    "long_balls_total", "crosses_accurate", "crosses_total", "shots_total", "shots_on_target",
    "shots_off_target", "shots_blocked_by_opponent", "dribbles_successful", "dribbles_attempts",
    "possession_lost", "dispossessed", "duels_won", "duels_lost", "aerials_won", "aerials_lost",
    "ground_duels_won", "ground_duels_total", "tackles", "interceptions", "clearances",
    "shots_blocked_by_player", "dribbled_past", "fouls_committed", "fouls_suffered", "saves",
    "punches_made", "high_claims", "saves_inside_box", "sweeper_keeper_successful",
    "sweeper_keeper_total"
>>
PlayerStatsPlaceholders == 47
PlayerStatsKey == {"match_id", "player_id"}
PlayerStatsSet == {
    "team_id", "is_substitute", "played_position", "jersey_number", "market_value_eur_at_match",
    "sofascore_rating", "minutes_played", "touches", "goals", "assists", "own_goals",
    "passes_accurate", "passes_total", "passes_key", "long_balls_accurate", "long_balls_total",
    "crosses_accurate", "crosses_total", "shots_total", "shots_on_target", "shots_off_target",
    "shots_blocked_by_opponent", "dribbles_successful", "dribbles_attempts", "possession_lost",
    "dispossessed", "duels_won", "duels_lost", "aerials_won", "aerials_lost", "ground_duels_won",
    "ground_duels_total", "tackles", "interceptions", "clearances", "shots_blocked_by_player",
    "dribbled_past", "fouls_committed", "fouls_suffered", "saves", "punches_made", "high_claims",
    "saves_inside_box", "sweeper_keeper_successful", "sweeper_keeper_total"
}

\* the row that the parameters of one tuple make
RowOf(columns, params) == [c \in {columns[i] : i \in 1..Len(columns)} |->
                              params[CHOOSE i \in 1..Len(columns) : columns[i] = c]]

SameKey(r1, r2, key) == \A c \in key : r1[c] = r2[c]

\* INSERT ... ON CONFLICT (key) DO UPDATE SET c = EXCLUDED.c for c in set, without
\* the conflict clause: the row is added whatever the table holds
UpsertRow_InsertOnly(table, row, key, set) == Append(table, row)

\* INSERT ... ON CONFLICT (key) DO UPDATE SET c = EXCLUDED.c for c in set
UpsertRow(table, row, key, set) ==
    IF \E n \in 1..Len(table) : SameKey(table[n], row, key)
    THEN [n \in 1..Len(table) |->
             IF SameKey(table[n], row, key)
             THEN [c \in DOMAIN table[n] |-> IF c \in set THEN row[c] ELSE table[n][c]]
             ELSE table[n]]
    ELSE Append(table, row)

\* cursor.executemany(sql, data_list)
RECURSIVE ExecuteMany(_, _, _, _, _)
ExecuteMany(table, data_list, columns, key, set) ==
    IF Len(data_list) = 0 THEN table
    ELSE ExecuteMany(UpsertRow(table, RowOf(columns, Head(data_list)), key, set),
                     Tail(data_list), columns, key, set)

\* a tuple the driver can send: one parameter per placeholder, none of them a dict
Sendable(params, placeholders) ==
    Len(params) = placeholders /\ \A i \in 1..Len(params) : ~IsDict(params[i])

\* execute_batch: the table after the call and the value returned; db_ok is
\* whether the connection and the statements work. A failure rolls the batch back.
execute_batch(table, data_list, columns, placeholders, key, set, db_ok) ==
    IF Len(data_list) = 0 THEN [table |-> table, result |-> FALSE]
    ELSE IF db_ok /\ \A n \in 1..Len(data_list) : Sendable(data_list[n], placeholders)
         THEN [table |-> ExecuteMany(table, data_list, columns, key, set), result |-> TRUE]
         ELSE [table |-> table, result |-> FALSE]

\* insert_team_stats_batch whose DO UPDATE SET leaves out formation,
\* average_team_rating and total_team_market_value_eur
insert_team_stats_batch_KeepsAggregates(table, team_stats_list, db_ok) ==
    IF Len(team_stats_list) = 0 THEN table
    ELSE execute_batch(table, team_stats_list, TeamStatsColumns, TeamStatsPlaceholders,
                       TeamStatsKey,
                       TeamStatsSet \ {"formation", "average_team_rating", "total_team_market_value_eur"},
                       db_ok).table

\* insert_team_stats_batch: team_match_stats after the call (nothing is returned)
insert_team_stats_batch(table, team_stats_list, db_ok) ==
    IF Len(team_stats_list) = 0 THEN table
    ELSE execute_batch(table, team_stats_list, TeamStatsColumns, TeamStatsPlaceholders,
                       TeamStatsKey, TeamStatsSet, db_ok).table

\* insert_player_stats_batch: player_match_stats after the call (nothing is returned)
insert_player_stats_batch(table, player_stats_list, db_ok) ==
    IF Len(player_stats_list) = 0 THEN table
    ELSE execute_batch(table, player_stats_list, PlayerStatsColumns, PlayerStatsPlaceholders,
                       PlayerStatsKey, PlayerStatsSet, db_ok).table

\* the parameters of update_team_match_aggregates
UpdateAggregatesParams == {"match_id", "home_rating", "away_rating", "home_value", "away_value"}

\* update_team_match_aggregates: the two UPDATEs of the period 'ALL' rows of a
\* match, by is_home_team; each is its own transaction (home_ok, away_ok)
update_team_match_aggregates(table, match_id, home_rating, away_rating, home_value, away_value, home_ok, away_ok) ==
    [n \in 1..Len(table) |->
        LET row == table[n]
            hit(is_home) == row["match_id"] = IntV(match_id) /\ row["is_home_team"] = BoolV(is_home)
                               /\ row["period"] = StrV("ALL")
        IN IF hit(FALSE) /\ away_ok
           THEN [row EXCEPT !["average_team_rating"] = away_rating,
                            !["total_team_market_value_eur"] = away_value]
           ELSE IF hit(TRUE) /\ home_ok
           THEN [row EXCEPT !["average_team_rating"] = home_rating,
                            !["total_team_market_value_eur"] = home_value]
           ELSE row]

\* get_basic_match_details: the team ids of the matches row, None without a row
get_basic_match_details(rows, match_id) ==
    IF match_id \in DOMAIN rows
    THEN [kind |-> "details", home_team_id |-> rows[match_id].home_team_id,
          away_team_id |-> rows[match_id].away_team_id]
    ELSE NoneV

----------------------------------------------------------------------------
(* The phases of one match. What a fetch returned is a list (ListV), a JSON  *)
(* object (ObjV), None or an error object (ErrorV).                          *)

ListV(items) == [kind |-> "list", items |-> items]
ErrorV(code) == [kind |-> "error", error |-> code]

\* process_team_stats_for_match from the fetched statistics on: team_match_stats
\* after the call and the value returned
process_team_stats_for_match(table, stats_result, match_id, home_team_id, away_team_id, tie, db_ok) ==
    IF IsNone(stats_result) \/ stats_result.kind = "error"
    THEN [table |-> table, result |-> FALSE]
    ELSE IF stats_result.kind # "list"
    THEN [table |-> table, result |-> FALSE]
    ELSE LET Stored(parsed_batch) ==
                 IF Len(parsed_batch) = 0
                 THEN [table |-> table, result |-> FALSE]
                 ELSE [table |-> insert_team_stats_batch(table, parsed_batch, db_ok),
                       result |-> TRUE]
         IN Stored(_parse_statistics_data(stats_result.items, match_id, home_team_id, away_team_id, tie))

\* float(str(value).replace(',', '.')), None for None and for a text that is no number
_safe_to_float(value) ==
    IF IsNone(value) THEN NoneV
    ELSE LET Converted(f) == IF f.ok THEN FloatV(f.n, f.d) ELSE NoneV
         IN Converted(ParseFloat(Replace(PyStr(value), ",", ".")))

\* the count columns of player_match_stats and the statistic each is read from
PlayerCountSources ==
    "minutes_played" :> "minutesPlayed" @@ "touches" :> "touches" @@ "goals" :> "goals" @@
    "assists" :> "goalAssist" @@ "own_goals" :> "ownGoals" @@
    "passes_accurate" :> "accuratePass" @@ "passes_total" :> "totalPass" @@
    "passes_key" :> "keyPass" @@ "long_balls_accurate" :> "accurateLongBalls" @@
    "long_balls_total" :> "totalLongBalls" @@ "crosses_accurate" :> "accurateCross" @@
    "crosses_total" :> "totalCross" @@ "shots_total" :> "totalShoot" @@
    "shots_on_target" :> "onTargetScoringAttempt" @@ "shots_off_target" :> "shotOffTarget" @@
    "shots_blocked_by_opponent" :> "blockedScoringAttempt" @@
    "dribbles_successful" :> "dribbleWon" @@ "dribbles_attempts" :> "dribbleAttempt" @@
    "possession_lost" :> "possessionLostCtrl" @@ "dispossessed" :> "dispossessed" @@
    "duels_won" :> "duelWon" @@ "duels_lost" :> "duelLost" @@ "aerials_won" :> "aerialWon" @@
    "aerials_lost" :> "aerialLost" @@ "tackles" :> "totalTackle" @@
    "interceptions" :> "interceptionWon" @@ "clearances" :> "totalClearance" @@
    "shots_blocked_by_player" :> "outfielderBlock" @@ "dribbled_past" :> "challengeLost" @@
    "fouls_committed" :> "fouls" @@ "fouls_suffered" :> "wasFouled" @@ "saves" :> "saves" @@
    "punches_made" :> "punches" @@ "high_claims" :> "goodHighClaim" @@
    "saves_inside_box" :> "savedShotsFromInsideTheBox" @@
    "sweeper_keeper_successful" :> "keeperSweeperWon" @@
    "sweeper_keeper_total" :> "totalKeeperSweeper"

\* the integer-biased conversion of a count, 0 when the source has none
CountOf(stats_raw, api_key) ==
    LET OrZero(n) == IF IsNone(n) THEN IntV(0) ELSE n
    IN OrZero(_safe_to_int(Get(stats_raw, api_key, NoneV)))

\* a count as resolved from the source, None when it has none
Resolved(stats_raw, api_key) == _safe_to_int(Get(stats_raw, api_key, NoneV))

\* ground_duels_won: the direct value, else duels_won - aerials_won when both
\* are resolved, unknown when an operand is missing or the difference is negative
GroundDuelsWon(stats_raw) ==
    LET Derived(direct, won, aerial) ==
            IF ~IsNone(direct) THEN direct
            ELSE IF ~IsNone(won) /\ ~IsNone(aerial) /\ won.v - aerial.v >= 0 THEN IntV(won.v - aerial.v)
            ELSE NoneV
    IN Derived(Resolved(stats_raw, "groundDuelWon"), Resolved(stats_raw, "duelWon"),
               Resolved(stats_raw, "aerialWon"))

\* ground_duels_total: the direct value, else duels_total - aerials_total
GroundDuelsTotal(stats_raw) ==
    LET Derived(direct, won, lost, aerial_won, aerial_lost) ==
            IF ~IsNone(direct) THEN direct
            ELSE IF /\ \A x \in {won, lost, aerial_won, aerial_lost} : ~IsNone(x)
                    /\ (won.v + lost.v) - (aerial_won.v + aerial_lost.v) >= 0
                 THEN IntV((won.v + lost.v) - (aerial_won.v + aerial_lost.v))
            ELSE NoneV
    IN Derived(Resolved(stats_raw, "groundDuelTotal"), Resolved(stats_raw, "duelWon"),
               Resolved(stats_raw, "duelLost"), Resolved(stats_raw, "aerialWon"),
               Resolved(stats_raw, "aerialLost"))

\* the market value of a lineup entry: proposedMarketValueRaw.value, 0 without
\* proposedMarketValueRaw, None when either is null
MarketValueOf(player_info) ==
    LET Value(market_value_raw) ==
            IF IsNone(market_value_raw) THEN NoneV ELSE Get(market_value_raw.items, "value", IntV(0))
    IN Value(Get(player_info, "proposedMarketValueRaw", ObjV(EmptyDict)))

\* the stat tuple of one lineup entry, None for an entry without a player id
PlayerStatTuple(player_entry, match_id, team_id) ==
    LET Param(c, player_info, stats_raw, player_id) ==
            CASE c = "match_id" -> IntV(match_id)
              [] c = "player_id" -> player_id
              [] c = "team_id" -> IntV(team_id)
              [] c = "is_substitute" -> Get(player_entry, "substitute", BoolV(FALSE))
              [] c = "played_position" -> Get(player_entry, "position", Get(player_info, "position", NoneV))
              [] c = "jersey_number" -> Get(player_entry, "jerseyNumber", NoneV)
              [] c = "market_value_eur_at_match" -> MarketValueOf(player_info)
              [] c = "sofascore_rating" -> _safe_to_float(Get(stats_raw, "rating", NoneV))
              [] c = "ground_duels_won" -> GroundDuelsWon(stats_raw)
              [] c = "ground_duels_total" -> GroundDuelsTotal(stats_raw)
              [] OTHER -> CountOf(stats_raw, PlayerCountSources[c])
        Tuple(player_info, stats_raw, player_id) ==
            IF ~IsInt(player_id) THEN NoneV
            ELSE [kind |-> "tuple",
                  params |-> [n \in 1..Len(PlayerStatsColumns) |->
                                Param(PlayerStatsColumns[n], player_info, stats_raw, player_id)]]
        OfInfo(player_info) ==
            Tuple(player_info, Get(player_entry, "statistics", EmptyDict), Get(player_info, "id", NoneV))
    IN OfInfo(Get(player_entry, "player", EmptyDict))

\* the tuples of the entries of one team, entries without a player id left out
RECURSIVE TeamTuples(_, _, _)
TeamTuples(entries, match_id, team_id) ==
    IF Len(entries) = 0 THEN <<>>
    ELSE LET Kept(t) == IF IsNone(t) THEN <<>> ELSE <<t.params>>
         IN Kept(PlayerStatTuple(Head(entries), match_id, team_id))
            \o TeamTuples(Tail(entries), match_id, team_id)

PlayerColumn(params, c) == params[CHOOSE n \in 1..Len(PlayerStatsColumns) : PlayerStatsColumns[n] = c]

\* the ratings above 0 of the tuples of a team
RECURSIVE RatingsOf(_)
RatingsOf(tuples) ==
    IF Len(tuples) = 0 THEN <<>>
    ELSE LET Rated(r) == IF IsFloat(r) /\ r.n > 0 THEN <<r>> ELSE <<>>
         IN Rated(PlayerColumn(Head(tuples), "sofascore_rating")) \o RatingsOf(Tail(tuples))

\* the sum of the market values of the tuples of a team that are not null
RECURSIVE TotalValueOf(_)
TotalValueOf(tuples) ==
    IF Len(tuples) = 0 THEN 0
    ELSE LET Known(v) == IF IsInt(v) THEN v.v ELSE 0
         IN Known(PlayerColumn(Head(tuples), "market_value_eur_at_match")) + TotalValueOf(Tail(tuples))

\* the aggregates of a team: formation, average of the ratings above 0, total value
TeamAggregates(team_data, tuples, up) ==
    [formation |-> Get(team_data, "formation", NoneV),
     avg_rating |-> AverageRating(RatingsOf(tuples), up),
     total_value |-> IntV(TotalValueOf(tuples))]

\* process_player_stats_for_match from the fetched lineup on: player_match_stats
\* after the call, the success flag and the aggregates of the two teams
process_player_stats_for_match(table, lineup_result, match_id, home_team_id, away_team_id, up_home, up_away, db_ok) ==
    IF IsNone(lineup_result) \/ lineup_result.kind # "obj"
    THEN [table |-> table, success |-> FALSE, team_aggregates |-> NoneV]
    ELSE LET Stored(home_data, away_data, home, away) ==
                 IF Len(home \o away) = 0
                 THEN [table |-> table, success |-> FALSE, team_aggregates |-> NoneV]
                 ELSE [table |-> insert_player_stats_batch(table, home \o away, db_ok),
                       success |-> TRUE,
                       team_aggregates |->
                           [kind |-> "aggregates",
                            home |-> TeamAggregates(home_data, home, up_home),
                            away |-> TeamAggregates(away_data, away, up_away)]]
             OfTeams(home_data, away_data) ==
                 Stored(home_data, away_data,
                        TeamTuples(Get(home_data, "players", <<>>), match_id, home_team_id),
                        TeamTuples(Get(away_data, "players", <<>>), match_id, away_team_id))
         IN OfTeams(Get(lineup_result.items, "home", EmptyDict), Get(lineup_result.items, "away", EmptyDict))

----------------------------------------------------------------------------
(* main.py: the loop over the matches, run on the same source MaxRuns times *)

MaxMatches == 2   \* the number of matches of a run
MaxRuns == 2      \* how often the program is run

all_match_ids == [k \in 1..MaxMatches |-> 1000 + k]

\* the match under work
match_id == all_match_ids[match_index]

\* the row of match k in matches
MatchRow(k) == [home_team_id |-> 10 * k, away_team_id |-> 10 * k + 10]

\* market values 5 000 000, null and 2 000 000 at home, none given away
ValuedLineup ==
    Lineup(<<PlayerEntry(1, Valued, [rating |-> FloatV(72, 10), minutesPlayed |-> IntV(90)]),
             PlayerEntry(2, ObjV([value |-> NoneV]), [rating |-> FloatV(68, 10)]),
             PlayerEntry(3, ObjV([value |-> IntV(2000000)]), [rating |-> IntV(0)])>>,
           <<PlayerEntry(7, AbsentV, FullStats)>>)

\* what the statistics fetch of a match can return
StatsResults ==
    {ErrorV(404),
     ListV(<<Period("ALL", MatchItems), Period("1ST", SubSeq(MatchItems, 1, 4))>>),
     ListV(<<Period("ALL", <<Item("Ball possession", PercentText(54), PercentText(46))>>)>>),
     ListV(<<Period("ALL", <<Item("Total tackles", StrV(<<"9", "/", "1", "7", " ", "(", "5", "3", "%", ")">>), NoneV)>>)>>)}

\* what the lineup fetch of a match can return
LineupResults ==
    {ErrorV(404), NoneV, ValuedLineup,
     Lineup(<<[player |-> [name |-> StrV(<<"P">>)], statistics |-> FullStats]>>, <<>>)}

SourceOf(k) ==
    IF k = 1 THEN [stats : StatsResults, lineup : LineupResults]
    ELSE [stats : {ListV(<<Period("ALL", MatchItems)>>)}, lineup : {ValuedLineup}]

\* the keyword arguments of the two calls of update_team_match_aggregates
AggregatesKeywords == {"match_id", "team_id", "is_home", "formation", "avg_rating", "total_value"}

\* a call by keywords binds when every keyword is a parameter and, no parameter
\* having a default, every parameter is given
Binds(keywords, params) == keywords \subseteq params /\ params \subseteq keywords

Init ==
    /\ NormIdle /\ PlayersIdle /\ TeamStatsIdle /\ EventsIdle /\ RoundsIdle /\ DimensionsIdle /\ RerunsIdle /\ SucceededIdle /\ PoolIdle
    /\ source \in {f \in [{all_match_ids[k] : k \in 1..MaxMatches} -> UNION {SourceOf(k) : k \in 1..MaxMatches}] :
                      \A k \in 1..MaxMatches : f[all_match_ids[k]] \in SourceOf(k)}
    /\ \E n \in (MaxMatches - 1)..MaxMatches :
          matches = [m \in {all_match_ids[k] : k \in 1..n} |->
                        MatchRow(CHOOSE k \in 1..n : all_match_ids[k] = m)]
    /\ team_match_stats = <<>>
    /\ player_match_stats = <<>>
    /\ run_no = 1
    /\ main_pc = "start"
    /\ match_index = 0
    /\ match_details = NoneV /\ match_processing_failed = FALSE /\ player_stats_success = FALSE
    /\ team_aggregates = NoneV /\ stopped = FALSE
    /\ successful_team_stats_count = 0 /\ successful_player_stats_count = 0
    /\ successful_incidents_shots_count = 0 /\ failed_match_ids_detailed = {}
    /\ first_run = NoneV /\ outcomes = <<>>

\* main() up to the loop over the matches: the counters of the run
StartRun ==
    /\ main_pc = "start"
    /\ successful_team_stats_count' = 0
    /\ successful_player_stats_count' = 0
    /\ successful_incidents_shots_count' = 0
    /\ failed_match_ids_detailed' = {}
    /\ stopped' = FALSE
    /\ match_index' = 1
    /\ main_pc' = "details"
    /\ outcomes' = <<>>
    /\ succeeded_match_ids' = {}
    /\ UNCHANGED <<source, matches, team_match_stats, player_match_stats, run_no, match_details,
                 match_processing_failed, player_stats_success, team_aggregates, first_run,
                 finish_rest>>

\* the head of the loop body: without the team ids the match is skipped (continue).
\* The SELECT gives nothing also when execute_query fails (db_ok).
GetMatchDetails ==
    /\ main_pc = "details"
    /\ match_processing_failed' = FALSE
    /\ team_aggregates' = NoneV
    /\ outcomes' = <<>>
    /\ \E db_ok \in BOOLEAN :
          \E found \in {IF db_ok THEN get_basic_match_details(matches, match_id) ELSE NoneV} :
             /\ match_details' = found
             /\ IF IsNone(found)
                THEN /\ failed_match_ids_detailed' = failed_match_ids_detailed \cup {match_id}
                     /\ IF match_index < Len(all_match_ids)
                        THEN match_index' = match_index + 1 /\ main_pc' = "details"
                        ELSE match_index' = match_index /\ main_pc' = "summary"
                ELSE /\ failed_match_ids_detailed' = failed_match_ids_detailed
                     /\ match_index' = match_index
                     /\ main_pc' = "team_stats"
    /\ UNCHANGED <<source, matches, team_match_stats, player_match_stats, run_no,
                 player_stats_success, successful_team_stats_count,
                 successful_player_stats_count, successful_incidents_shots_count, stopped,
                 first_run, main_rest>>

\* phase 2: process_team_stats_for_match
TeamStatsPhase ==
    /\ main_pc = "team_stats"
    /\ \E db_ok \in BOOLEAN :
          \E done \in {process_team_stats_for_match(team_match_stats, source[match_id].stats, match_id,
                            match_details.home_team_id, match_details.away_team_id, FALSE, db_ok)} :
             /\ team_match_stats' = done.table
             /\ outcomes' = outcomes @@ ("team_stats" :> IF done.result THEN "True" ELSE "False")
             /\ IF done.result
                THEN /\ successful_team_stats_count' = successful_team_stats_count + 1
                     /\ match_processing_failed' = match_processing_failed
                ELSE /\ successful_team_stats_count' = successful_team_stats_count
                     /\ match_processing_failed' = TRUE
    /\ main_pc' = "player_stats"
    /\ UNCHANGED <<source, matches, player_match_stats, run_no, match_index, match_details,
                 player_stats_success, team_aggregates, successful_player_stats_count,
                 successful_incidents_shots_count, failed_match_ids_detailed, stopped,
                 first_run, main_rest>>

\* phase 3: process_player_stats_for_match
PlayerStatsPhase ==
    /\ main_pc = "player_stats"
    /\ \E db_ok \in BOOLEAN :
          \E done \in {process_player_stats_for_match(player_match_stats, source[match_id].lineup, match_id,
                            match_details.home_team_id, match_details.away_team_id, FALSE, FALSE, db_ok)} :
             /\ player_match_stats' = done.table
             /\ player_stats_success' = done.success
             /\ outcomes' = outcomes @@ ("player_stats" :> IF done.success THEN "True" ELSE "False")
             /\ team_aggregates' = done.team_aggregates
             /\ IF done.success
                THEN /\ successful_player_stats_count' = successful_player_stats_count + 1
                     /\ match_processing_failed' = match_processing_failed
                ELSE /\ successful_player_stats_count' = successful_player_stats_count
                     /\ match_processing_failed' = TRUE
    /\ main_pc' = "aggregates"
    /\ UNCHANGED <<source, matches, team_match_stats, run_no, match_index, match_details,
                 successful_team_stats_count, successful_incidents_shots_count,
                 failed_match_ids_detailed, stopped, first_run, main_rest>>

\* the update of the team aggregates: the keyword arguments of the two calls do
\* not bind to the parameters of update_team_match_aggregates, so the first
\* call raises TypeError, which the except around the calls takes as a failure
UpdateAggregates ==
    /\ main_pc = "aggregates"
    /\ IF player_stats_success /\ ~IsNone(team_aggregates)
       THEN IF Binds(AggregatesKeywords, UpdateAggregatesParams)
            THEN /\ \E home_ok, away_ok \in BOOLEAN :
                       team_match_stats' =
                           update_team_match_aggregates(team_match_stats, match_id,
                               team_aggregates.home.avg_rating, team_aggregates.away.avg_rating,
                               team_aggregates.home.total_value, team_aggregates.away.total_value,
                               home_ok, away_ok)
                 /\ match_processing_failed' = match_processing_failed
                 /\ outcomes' = outcomes @@ ("aggregates" :> "None")
            ELSE /\ team_match_stats' = team_match_stats
                 /\ match_processing_failed' = TRUE
                 /\ outcomes' = outcomes @@ ("aggregates" :> "raised")
       ELSE /\ team_match_stats' = team_match_stats
            /\ match_processing_failed' = match_processing_failed
            /\ outcomes' = outcomes
    /\ main_pc' = "incidents_shots"
    /\ UNCHANGED <<source, matches, player_match_stats, run_no, match_index, match_details,
                 player_stats_success, team_aggregates, successful_team_stats_count,
                 successful_player_stats_count, successful_incidents_shots_count,
                 failed_match_ids_detailed, stopped, first_run, main_rest>>

\* phase 4: process_incidents_and_shots_for_match returns True or False, or an
\* exception leaves it; the rows it writes are not part of the state
IncidentsShotsPhase ==
    /\ main_pc = "incidents_shots"
    /\ \E outcome \in {"True", "False", "raised"} :
          /\ successful_incidents_shots_count' =
                 IF outcome = "True" THEN successful_incidents_shots_count + 1
                 ELSE successful_incidents_shots_count
          /\ match_processing_failed' = (match_processing_failed \/ outcome # "True")
          /\ main_pc' = IF outcome = "raised" THEN "except" ELSE "finally"
          /\ outcomes' = outcomes @@ ("incidents_shots" :> outcome)
    /\ UNCHANGED <<source, matches, team_match_stats, player_match_stats, run_no, match_index,
                 match_details, player_stats_success, team_aggregates,
                 successful_team_stats_count, successful_player_stats_count,
                 failed_match_ids_detailed, stopped, first_run, main_rest>>

\* except Exception: the browser context is set up again; without a page the
\* loop is left
HandleProcessingError ==
    /\ main_pc = "except"
    /\ match_processing_failed' = TRUE
    /\ \E page \in BOOLEAN : stopped' = ~page
    /\ main_pc' = "finally"
    /\ UNCHANGED <<source, matches, team_match_stats, player_match_stats, run_no, match_index,
                 match_details, player_stats_success, team_aggregates,
                 successful_team_stats_count, successful_player_stats_count,
                 successful_incidents_shots_count, failed_match_ids_detailed, first_run,
                 outcomes, main_rest>>

\* the three phases were run and returned True, and the update of the
\* aggregates, if called, returned
AllPhasesSucceeded(of_match) ==
    /\ {"team_stats", "player_stats", "incidents_shots"} \subseteq DOMAIN of_match
    /\ \A phase \in DOMAIN of_match : of_match[phase] \in {"True", "None"}

\* FinishMatch with the failed set left as it is
FinishMatch_NotRecorded ==
    /\ main_pc = "finally"
    /\ failed_match_ids_detailed' = failed_match_ids_detailed
    /\ IF ~stopped /\ match_index < Len(all_match_ids)
       THEN match_index' = match_index + 1 /\ main_pc' = "details"
       ELSE match_index' = match_index /\ main_pc' = "summary"
    /\ succeeded_match_ids' =
           IF AllPhasesSucceeded(outcomes) THEN succeeded_match_ids \cup {match_id}
           ELSE succeeded_match_ids
    /\ UNCHANGED <<source, matches, team_match_stats, player_match_stats, run_no, match_details,
                 match_processing_failed, player_stats_success, team_aggregates,
                 successful_team_stats_count, successful_player_stats_count,
                 successful_incidents_shots_count, stopped, first_run, outcomes, finish_rest>>

\* finally: the match is counted as failed or not, then the next match
FinishMatch ==
    /\ main_pc = "finally"
    /\ failed_match_ids_detailed' =
           IF match_processing_failed THEN failed_match_ids_detailed \cup {match_id}
           ELSE failed_match_ids_detailed
    /\ IF ~stopped /\ match_index < Len(all_match_ids)
       THEN match_index' = match_index + 1 /\ main_pc' = "details"
       ELSE match_index' = match_index /\ main_pc' = "summary"
    /\ succeeded_match_ids' =
           IF AllPhasesSucceeded(outcomes) THEN succeeded_match_ids \cup {match_id}
           ELSE succeeded_match_ids
    /\ UNCHANGED <<source, matches, team_match_stats, player_match_stats, run_no, match_details,
                 match_processing_failed, player_stats_success, team_aggregates,
                 successful_team_stats_count, successful_player_stats_count,
                 successful_incidents_shots_count, stopped, first_run, outcomes, finish_rest>>

\* the summary after the loop; the run is over
Summary ==
    /\ main_pc = "summary"
    /\ first_run' = IF run_no = 1
                    THEN [kind |-> "tables", team_match_stats |-> team_match_stats,
                          player_match_stats |-> player_match_stats]
                    ELSE first_run
    /\ main_pc' = "finished"
    /\ UNCHANGED <<source, matches, team_match_stats, player_match_stats, run_no, match_index,
                 match_details, match_processing_failed, player_stats_success, team_aggregates,
                 successful_team_stats_count, successful_player_stats_count,
                 successful_incidents_shots_count, failed_match_ids_detailed, stopped, outcomes,
                 main_rest>>

\* the program is started again on the same source
RunAgain ==
    /\ main_pc = "finished"
    /\ run_no < MaxRuns
    /\ run_no' = run_no + 1
    /\ main_pc' = "start"
    /\ UNCHANGED <<source, matches, team_match_stats, player_match_stats, match_index,
                 match_details, match_processing_failed, player_stats_success, team_aggregates,
                 successful_team_stats_count, successful_player_stats_count,
                 successful_incidents_shots_count, failed_match_ids_detailed, stopped,
                 first_run, outcomes, main_rest>>

Next ==
    \/ StartRun \/ GetMatchDetails \/ TeamStatsPhase \/ PlayerStatsPhase \/ UpdateAggregates
    \/ IncidentsShotsPhase \/ HandleProcessingError \/ FinishMatch \/ Summary \/ RunAgain

Spec == Init /\ [][Next]_vars

----------------------------------------------------------------------------
(* Properties of the ingestion, under Spec *)

NoDuplicateKeys(table, key) ==
    \A a, b \in 1..Len(table) : SameKey(table[a], table[b], key) => a = b

\* every row of the table before is a row of the table after, field by field
RowsKept(before, after) ==
    \A a \in 1..Len(before) : \E b \in 1..Len(after) : after[b] = before[a]

RunFinished == main_pc = "finished"

\* C1: however often the ingestion is run on the same source, team_match_stats
\* holds one row for a (match_id, team_id, period) and player_match_stats one row
\* for a (match_id, player_id), and when a later run has finished every row that
\* the first run left is there with every field as the first run left it.
C1_RerunKeepsRows ==
    /\ NoDuplicateKeys(team_match_stats, TeamStatsKey)
    /\ NoDuplicateKeys(player_match_stats, PlayerStatsKey)
    /\ (RunFinished /\ run_no > 1) =>
          /\ RowsKept(first_run.team_match_stats, team_match_stats)
          /\ RowsKept(first_run.player_match_stats, player_match_stats)

\* a second run that wrote the rows of both tables again and left them as they were
C1_Witness ==
    /\ RunFinished /\ run_no = 2
    /\ successful_team_stats_count > 0 /\ successful_player_stats_count > 0
    /\ Len(team_match_stats) >= 6 /\ Len(player_match_stats) >= 4
    /\ first_run.team_match_stats = team_match_stats
    /\ first_run.player_match_stats = player_match_stats

\* the sum of the market values of the entries of a team that are not null
RECURSIVE SumOfMarketValues(_)
SumOfMarketValues(entries) ==
    IF Len(entries) = 0 THEN 0
    ELSE LET raw == Get(Get(Head(entries), "player", EmptyDict), "proposedMarketValueRaw", NoneV)
             value == IF IsNone(raw) THEN NoneV ELSE Get(raw.items, "value", NoneV)
         IN (IF IsInt(value) THEN value.v ELSE 0) + SumOfMarketValues(Tail(entries))

\* after the aggregate update of a match whose player stats went through
AggregatesDue ==
    main_pc = "incidents_shots" /\ player_stats_success /\ ~IsNone(team_aggregates)

\* the period 'ALL' rows of a team of the match under work
AllRows(team_id) ==
    {n \in 1..Len(team_match_stats) :
        /\ team_match_stats[n]["match_id"] = IntV(match_id)
        /\ team_match_stats[n]["team_id"] = IntV(team_id)
        /\ team_match_stats[n]["period"] = StrV("ALL")}

TeamEntries(side) == Get(Get(source[match_id].lineup.items, side, EmptyDict), "players", <<>>)

\* C9: once the aggregates of a match are due, the period 'ALL' row of each team
\* holds as total_team_market_value_eur the sum of the market values of the
\* players of the team that are not null, a null value counting as 0.
C9_TotalMarketValueWritten ==
    AggregatesDue =>
        /\ \A n \in AllRows(match_details.home_team_id) :
              team_match_stats[n]["total_team_market_value_eur"] = IntV(SumOfMarketValues(TeamEntries("home")))
        /\ \A n \in AllRows(match_details.away_team_id) :
              team_match_stats[n]["total_team_market_value_eur"] = IntV(SumOfMarketValues(TeamEntries("away")))

\* what the code does instead: the players' values 5 000 000, null and 2 000 000
\* are summed to 7 000 000 in team_aggregates, the update raises, and the
\* column of the row is left null
C9_TotalStaysNull ==
    AggregatesDue =>
        \A n \in AllRows(match_details.home_team_id) \cup AllRows(match_details.away_team_id) :
            team_match_stats[n]["total_team_market_value_eur"] = NoneV

C9_Witness ==
    /\ AggregatesDue
    /\ AllRows(match_details.home_team_id) # {}
    /\ team_aggregates.home.total_value = IntV(7000000)
    /\ match_processing_failed

----------------------------------------------------------------------------
(* extractors/shots_extractor.py: the incidents and the shots of a match.    *)
(* An incident, a shot and a player are JSON objects; a text that the code   *)
(* only compares or hands on (incidentType, incidentClass, shotType,         *)
(* situation, a name) is held as a TLA+ string in a TextV. What a fetch      *)
(* gives is the JSON object of a 200 response, an ErrorV for another status, *)
(* or RaisedV when page.goto raises.                                         *)

TextV(text) == [kind |-> "text", text |-> text]
RaisedV == [kind |-> "raised", error |-> "Error"]

\* key in dict and dict[key]
Has(dict, key) == key \in DOMAIN dict /\ ~Falsy(dict[key])

\* dict.get(key, {}).get('id'): AttributeErrorV when the key holds null
GetId(dict, key) ==
    IF key \notin DOMAIN dict THEN NoneV
    ELSE IF dict[key].kind = "obj" THEN Get(dict[key].items, "id", NoneV)
    ELSE AttributeErrorV

\* the values of the keys that dict has with a truthy value, in the order of keys
Values(dict, keys) ==
    LET OfPicked(picked) == [i \in 1..Len(picked) |-> dict[picked[i]]]
    IN OfPicked(SelectSeq(keys, LAMBDA k : Has(dict, k)))

RECURSIVE Flatten(_)
Flatten(seqs) == IF Len(seqs) = 0 THEN <<>> ELSE Head(seqs) \o Flatten(Tail(seqs))

\* all_players_data: the players of the incidents, of their passing network
\* actions and of the shots
PlayersOfIncident(incident) ==
    Values(incident, <<"player", "playerIn", "playerOut", "assist1">>)
    \o Flatten([a \in 1..Len(Get(incident, "footballPassingNetworkAction", <<>>)) |->
                   Values(incident["footballPassingNetworkAction"][a], <<"player", "goalkeeper">>)])

all_players_data(incidents, shotmap) ==
    Flatten([i \in 1..Len(incidents) |-> PlayersOfIncident(incidents[i])])
    \o Flatten([i \in 1..Len(shotmap) |-> Values(shotmap[i], <<"player", "goalkeeper">>)])

\* the incidents and the shots of the payloads, none when the fetch failed or
\* the payload lacks the key
ListOf(data, key) == IF IsNone(data) THEN <<>> ELSE Get(data.items, key, <<>>)

\* unique_players = {p['id']: p for p in all_players_data if p and p.get('id')}
unique_players(incidents, shotmap) ==
    LET Unique(all) ==
            [id \in {all[i].items["id"].v : i \in {j \in 1..Len(all) : Has(all[j].items, "id")}} |->
                all[CHOOSE i \in 1..Len(all) :
                        /\ Has(all[i].items, "id") /\ all[i].items["id"].v = id
                        /\ \A j \in (i + 1)..Len(all) :
                              ~(Has(all[j].items, "id") /\ all[j].items["id"].v = id)]]
    IN Unique(all_players_data(incidents, shotmap))

\* execute_query: the value returned. Only a statement that went through
\* with fetch set returns the row fetched.
execute_query(row, fetch, db_ok) == IF fetch /\ db_ok THEN ObjV(row) ELSE NoneV

\* upsert_player: INSERT INTO players ... ON CONFLICT (player_id) DO UPDATE SET
upsert_player(table, player_id, name, height, position, country, db_ok) ==
    IF db_ok
    THEN Put(table, player_id, [name |-> name, height_cm |-> height,
                                primary_position |-> position, country_name |-> country])
    ELSE table

\* _upsert_player_from_data: the players table after the task, and whether a
\* statement was issued
_upsert_player_from_data(table, player_data, db_ok) ==
    IF Falsy(player_data) \/ ~Has(player_data.items, "id")
    THEN [table |-> table, issued |-> FALSE]
    ELSE IF Has(player_data.items, "name")
    THEN [table |-> upsert_player(table, player_data.items["id"].v, player_data.items["name"],
                                  Get(player_data.items, "height", NoneV),
                                  Get(player_data.items, "position", NoneV), NoneV, db_ok),
          issued |-> TRUE]
    ELSE [table |-> table, issued |-> FALSE]

\* the tables the event phase inserts into
SubRecordTables == {"goal_events", "card_events", "substitution_events", "var_decision_events",
                    "shot_events", "missed_penalty_events"}
EventTables == {"match_event_base"} \cup SubRecordTables

\* The state of the event phase that the statements of one incident or shot
\* change is [tables, log, success]. An entry of the log is the statement
\* issued: its table, the incident or shot it is issued for (item), its
\* parameters, whether it went through (ok) and the value execute_query returned.
Statement(table, item, params, ok, returned) ==
    [table |-> table, item |-> item, params |-> params, ok |-> ok, returned |-> returned]

\* success = False
Failed(st) == [st EXCEPT !.success = FALSE]

\* InsertBase with an event_id that is not generated anew for each row
InsertBase_SameEventId(st, item, params, db_ok) ==
    LET Inserted(row) ==
            [tables |-> IF db_ok THEN [st.tables EXCEPT !["match_event_base"] = Append(@, row)]
                        ELSE st.tables,
             log |-> Append(st.log, Statement("match_event_base", item, params, db_ok,
                                              execute_query(row, TRUE, db_ok))),
             success |-> st.success]
    IN Inserted([event_id |-> IntV(1),
                 match_id |-> params.match_id, minute |-> params.minute,
                 event_type |-> params.event_type, team_id |-> params.team_id,
                 player_id |-> params.player_id])

\* INSERT INTO match_event_base (...) VALUES (...) RETURNING event_id, by
\* execute_query(sql, params, fetch=True, many=False); event_id is a serial
InsertBase(st, item, params, db_ok) ==
    LET Inserted(row) ==
            [tables |-> IF db_ok THEN [st.tables EXCEPT !["match_event_base"] = Append(@, row)]
                        ELSE st.tables,
             log |-> Append(st.log, Statement("match_event_base", item, params, db_ok,
                                              execute_query(row, TRUE, db_ok))),
             success |-> st.success]
    IN Inserted([event_id |-> IntV(Len(st.tables["match_event_base"]) + 1),
                 match_id |-> params.match_id, minute |-> params.minute,
                 event_type |-> params.event_type, team_id |-> params.team_id,
                 player_id |-> params.player_id])

\* base_event_result, the value the last statement returned
LastReturned(st) == st.log[Len(st.log)].returned

\* if not await execute_query(sql, params): success = False, for the INSERT
\* into a sub-record table
InsertSub(st, table, item, params, db_ok) ==
    [tables |-> IF db_ok THEN [st.tables EXCEPT ![table] = Append(@, params)] ELSE st.tables,
     log |-> Append(st.log, Statement(table, item, params, db_ok, execute_query(params, FALSE, db_ok))),
     success |-> IF Falsy(execute_query(params, FALSE, db_ok)) THEN FALSE ELSE st.success]

\* _get_team_id(is_home, home_team_id, away_team_id)
_get_team_id(is_home, home_team_id, away_team_id) ==
    IF ~Falsy(is_home) THEN home_team_id ELSE away_team_id

\* body_part of a goal: the bodyPart of the first passing network action that
\* is the goal and has one
BodyPartOf(incident) ==
    LET Of(actions) ==
            LET goal == {a \in 1..Len(actions) :
                            /\ Get(actions[a], "eventType", NoneV) = TextV("goal")
                            /\ Has(actions[a], "bodyPart")}
            IN IF goal = {} THEN NoneV
               ELSE actions[CHOOSE a \in goal : \A b \in goal : a <= b]["bodyPart"]
    IN Of(Get(incident, "footballPassingNetworkAction", <<>>))

\* player_id_base of an incident (lines 123-148)
PlayerIdBase(incident, incident_type) ==
    LET IdOf(key) == Get(incident[key].items, "id", NoneV)
        Default(first) ==
            IF incident_type \in {TextV("goal"), TextV("card"), TextV("missedPenalty")}
            THEN (IF Has(incident, "player") THEN IdOf("player") ELSE first)
            ELSE IF incident_type = TextV("substitution")
            THEN (IF Has(incident, "playerOut") THEN IdOf("playerOut") ELSE first)
            ELSE IF incident_type = TextV("varDecision")
            THEN (IF Has(incident, "player") THEN IdOf("player") ELSE NoneV)
            ELSE first
    IN Default(IF Has(incident, "player") THEN IdOf("player")
               ELSE IF Has(incident, "playerIn") THEN IdOf("playerIn")
               ELSE NoneV)

\* the part of the loop body of an incident after its base event has its
\* event_id (lines 172-249); an AttributeError is caught by the except of the
\* loop body, which sets success = False
IncidentSubRecord(st, incident, incident_type, item, event_id, sub_ok) ==
    LET Goal(scoring_player_id, assist_player_id) ==
            IF scoring_player_id.kind = "raised" \/ assist_player_id.kind = "raised"
            THEN Failed(st)
            ELSE IF ~Falsy(scoring_player_id)
            THEN InsertSub(st, "goal_events", item,
                           [event_id |-> event_id, scoring_player_id |-> scoring_player_id,
                            assist_player_id |-> assist_player_id,
                            goal_type |-> Get(incident, "goalType", NoneV),
                            body_part |-> BodyPartOf(incident)], sub_ok)
            ELSE Failed(st)
        Card(card_type, player_id_card) ==
            IF player_id_card.kind = "raised" THEN Failed(st)
            ELSE IF ~Falsy(player_id_card) /\ ~Falsy(card_type)
            THEN InsertSub(st, "card_events", item,
                           [event_id |-> event_id, card_type |-> card_type,
                            reason |-> Get(incident, "reason", NoneV),
                            is_rescinded |-> Get(incident, "rescinded", BoolV(FALSE))], sub_ok)
            ELSE Failed(st)
        Substitution(player_in_id, player_out_id) ==
            IF player_in_id.kind = "raised" \/ player_out_id.kind = "raised" THEN Failed(st)
            ELSE IF ~Falsy(player_in_id) /\ ~Falsy(player_out_id)
            THEN InsertSub(st, "substitution_events", item,
                           [event_id |-> event_id, player_in_id |-> player_in_id,
                            player_out_id |-> player_out_id], sub_ok)
            ELSE Failed(st)
    IN IF incident_type = TextV("goal")
       THEN Goal(GetId(incident, "player"), GetId(incident, "assist1"))
       ELSE IF incident_type = TextV("card")
       THEN Card(Get(incident, "incidentClass", NoneV), GetId(incident, "player"))
       ELSE IF incident_type = TextV("substitution")
       THEN Substitution(GetId(incident, "playerIn"), GetId(incident, "playerOut"))
       ELSE IF incident_type = TextV("varDecision")
       THEN InsertSub(st, "var_decision_events", item,
                      [event_id |-> event_id, decision_type |-> TextV("VAR decision"),
                       decision_outcome |-> Get(incident, "incidentClass", NoneV),
                       incident_class_reviewed |-> NoneV], sub_ok)
       ELSE st

\* ProcessIncidentBody with the sub-record statement issued whether or not the
\* base event returned an event_id
ProcessIncidentBody_SubRecordWithoutBase(st, incident, item, args, base_ok, sub_ok) ==
    LET Based(after, incident_type) ==
            IncidentSubRecord(after, incident, incident_type, item,
                              IF Falsy(LastReturned(after)) THEN NoneV
                              ELSE LastReturned(after).items["event_id"], sub_ok)
        Checked(incident_type, minute, team_id) ==
            IF incident_type \in {TextV("period"), TextV("injuryTime")} THEN st
            ELSE IF incident_type = TextV("card") /\ ~Falsy(Get(incident, "manager", NoneV)) THEN st
            ELSE IF IsNone(minute) \/ IsNone(team_id) THEN st
            ELSE Based(InsertBase(st, item,
                                  [match_id |-> IntV(args.match_id), minute |-> minute,
                                   event_type |-> incident_type, team_id |-> team_id,
                                   player_id |-> PlayerIdBase(incident, incident_type)], base_ok),
                       incident_type)
        OfTeam(is_home) ==
            Checked(Get(incident, "incidentType", NoneV), Get(incident, "time", NoneV),
                    IF IsNone(is_home) THEN NoneV
                    ELSE IntV(_get_team_id(is_home, args.home_team_id, args.away_team_id)))
    IN OfTeam(Get(incident, "isHome", NoneV))

\* the body of the loop over the incidents for one incident (lines 117-267)
ProcessIncidentBody(st, incident, item, args, base_ok, sub_ok) ==
    LET Based(after, incident_type) ==
            IF Falsy(LastReturned(after)) THEN Failed(after)
            ELSE IncidentSubRecord(after, incident, incident_type, item,
                                   LastReturned(after).items["event_id"], sub_ok)
        Checked(incident_type, minute, team_id) ==
            IF incident_type \in {TextV("period"), TextV("injuryTime")} THEN st
            ELSE IF incident_type = TextV("card") /\ ~Falsy(Get(incident, "manager", NoneV)) THEN st
            ELSE IF IsNone(minute) \/ IsNone(team_id) THEN st
            ELSE Based(InsertBase(st, item,
                                  [match_id |-> IntV(args.match_id), minute |-> minute,
                                   event_type |-> incident_type, team_id |-> team_id,
                                   player_id |-> PlayerIdBase(incident, incident_type)], base_ok),
                       incident_type)
        OfTeam(is_home) ==
            Checked(Get(incident, "incidentType", NoneV), Get(incident, "time", NoneV),
                    IF IsNone(is_home) THEN NoneV
                    ELSE IntV(_get_team_id(is_home, args.home_team_id, args.away_team_id)))
    IN OfTeam(Get(incident, "isHome", NoneV))

\* the body of the loop over the shots for one shot (lines 272-367)
ProcessShotBody(st, shot, item, args, base_ok, sub_ok, penalty_ok) ==
    LET Coordinate(key, axis) ==
            IF key \notin DOMAIN shot THEN NoneV
            ELSE IF shot[key].kind = "obj" THEN Get(shot[key].items, axis, NoneV)
            ELSE AttributeErrorV
        MissedPenalty(after, event_id, shot_outcome, situation) ==
            IF shot_outcome = TextV("miss") /\ situation = TextV("penalty")
            THEN InsertSub(after, "missed_penalty_events", item,
                           [event_id |-> event_id, outcome |-> TextV("missed")], penalty_ok)
            ELSE after
        ShotEvent(after, shot_params) ==
            IF \E c \in DOMAIN shot_params : shot_params[c].kind = "raised" THEN Failed(after)
            ELSE MissedPenalty(InsertSub(after, "shot_events", item, shot_params, sub_ok),
                               shot_params.event_id, shot_params.shot_outcome, shot_params.situation)
        Based(after, shooter_player_id) ==
            IF Falsy(LastReturned(after)) THEN Failed(after)
            ELSE ShotEvent(after,
                     [event_id |-> LastReturned(after).items["event_id"],
                      shooter_player_id |-> shooter_player_id,
                      shot_outcome |-> Get(shot, "shotType", NoneV),
                      situation |-> Get(shot, "situation", NoneV),
                      body_part |-> Get(shot, "bodyPart", NoneV),
                      xg |-> Get(shot, "xg", NoneV), xgot |-> Get(shot, "xgot", NoneV),
                      player_coord_x |-> Coordinate("playerCoordinates", "x"),
                      player_coord_y |-> Coordinate("playerCoordinates", "y"),
                      goal_mouth_location |-> Get(shot, "goalMouthLocation", NoneV),
                      goal_mouth_coord_x |-> Coordinate("goalMouthCoordinates", "x"),
                      goal_mouth_coord_y |-> Coordinate("goalMouthCoordinates", "y"),
                      goal_mouth_coord_z |-> Coordinate("goalMouthCoordinates", "z"),
                      block_coord_x |-> Coordinate("blockCoordinates", "x"),
                      block_coord_y |-> Coordinate("blockCoordinates", "y"),
                      goalkeeper_id |-> IF Has(shot, "goalkeeper")
                                        THEN Get(shot["goalkeeper"].items, "id", NoneV) ELSE NoneV,
                      added_time |-> Get(shot, "addedTime", NoneV)])
        Checked(shooter_player_data, minute, is_home) ==
            IF Falsy(shooter_player_data) \/ ~Has(shooter_player_data.items, "id") THEN Failed(st)
            ELSE IF IsNone(minute) \/ IsNone(is_home) THEN Failed(st)
            ELSE Based(InsertBase(st, item,
                                  [match_id |-> IntV(args.match_id), minute |-> minute,
                                   event_type |-> TextV("shot"),
                                   team_id |-> IntV(_get_team_id(is_home, args.home_team_id,
                                                                 args.away_team_id)),
                                   player_id |-> shooter_player_data.items["id"]], base_ok),
                       shooter_player_data.items["id"])
    IN IF Get(shot, "incidentType", NoneV) # TextV("shot") THEN st
       ELSE Checked(Get(shot, "player", NoneV), Get(shot, "time", NoneV), Get(shot, "isHome", NoneV))

----------------------------------------------------------------------------
(* process_incidents_and_shots_for_match, one call *)

\* ev_pc after the player upserts, or after the incident or the shot at index
\* of the loop named by pc
AfterItem(pc, index, incidents, shotmap) ==
    IF pc = "incidents" /\ index < Len(incidents) THEN [pc |-> "incidents", index |-> index + 1]
    ELSE IF pc = "shots" /\ index < Len(shotmap) THEN [pc |-> "shots", index |-> index + 1]
    ELSE IF pc = "upserts" /\ Len(incidents) > 0 THEN [pc |-> "incidents", index |-> 1]
    ELSE IF pc \in {"upserts", "incidents"} /\ Len(shotmap) > 0 THEN [pc |-> "shots", index |-> 1]
    ELSE [pc |-> "return", index |-> 0]

\* the two fetches (lines 64-87) and the tasks of the player upserts (lines 90-110)
FetchIncidentsAndShots ==
    /\ ev_pc = "start"
    /\ IF ev_source.incidents.kind = "raised" \/ ev_source.shotmap.kind = "raised"
       THEN /\ ev_pc' = "returned" /\ ev_result' = BoolV(FALSE)
            /\ UNCHANGED <<incidents_data, shotmap_data, success, ev_pending>>
       ELSE /\ incidents_data' = IF ev_source.incidents.kind = "obj" THEN ev_source.incidents ELSE NoneV
            /\ shotmap_data' = IF ev_source.shotmap.kind = "obj" THEN ev_source.shotmap ELSE NoneV
            /\ success' = (ev_source.incidents.kind = "obj" /\ ev_source.shotmap.kind = "obj")
            /\ ev_pending' = DOMAIN unique_players(ListOf(incidents_data', "incidents"),
                                                   ListOf(shotmap_data', "shotmap"))
            /\ ev_pc' = "upserts" /\ ev_result' = ev_result
    /\ UNCHANGED <<ev_source, ev_args, ev_index, players_table, event_tables, ev_log, ev_rest>>

\* one task of asyncio.gather(*player_upsert_tasks): the tasks run in any order
UpsertPlayer ==
    /\ ev_pc = "upserts"
    /\ \E id \in ev_pending, db_ok \in BOOLEAN :
          \E done \in {_upsert_player_from_data(players_table,
                           unique_players(ListOf(incidents_data, "incidents"),
                                          ListOf(shotmap_data, "shotmap"))[id], db_ok)} :
             /\ players_table' = done.table
             /\ ev_log' = IF done.issued
                          THEN Append(ev_log, Statement("players", <<"players", id>>,
                                                        [player_id |-> IntV(id)], db_ok, NoneV))
                          ELSE ev_log
             /\ ev_pending' = ev_pending \ {id}
    /\ UNCHANGED <<ev_source, ev_args, incidents_data, shotmap_data, success, ev_index, ev_pc,
                 ev_result, event_tables, ev_rest>>

\* await asyncio.gather(...) returns when every task has run
AwaitGather ==
    /\ ev_pc = "upserts" /\ ev_pending = {}
    /\ \E next \in {AfterItem("upserts", 0, ListOf(incidents_data, "incidents"),
                              ListOf(shotmap_data, "shotmap"))} :
          ev_pc' = next.pc /\ ev_index' = next.index
    /\ UNCHANGED <<ev_source, ev_args, incidents_data, shotmap_data, success, ev_pending,
                 ev_result, players_table, event_tables, ev_log, ev_rest>>

\* one pass of the loop over the incidents
ProcessIncident ==
    /\ ev_pc = "incidents"
    /\ \E base_ok, sub_ok \in BOOLEAN :
          \E st \in {ProcessIncidentBody([tables |-> event_tables, log |-> ev_log, success |-> success],
                                         ListOf(incidents_data, "incidents")[ev_index],
                                         <<"incidents", ev_index>>, ev_args, base_ok, sub_ok)} :
             event_tables' = st.tables /\ ev_log' = st.log /\ success' = st.success
    /\ \E next \in {AfterItem("incidents", ev_index, ListOf(incidents_data, "incidents"),
                              ListOf(shotmap_data, "shotmap"))} :
          ev_pc' = next.pc /\ ev_index' = next.index
    /\ UNCHANGED <<ev_source, ev_args, incidents_data, shotmap_data, ev_pending, ev_result,
                 players_table, ev_rest>>

\* one pass of the loop over the shots
ProcessShot ==
    /\ ev_pc = "shots"
    /\ \E base_ok, sub_ok, penalty_ok \in BOOLEAN :
          \E st \in {ProcessShotBody([tables |-> event_tables, log |-> ev_log, success |-> success],
                                     ListOf(shotmap_data, "shotmap")[ev_index],
                                     <<"shots", ev_index>>, ev_args, base_ok, sub_ok, penalty_ok)} :
             event_tables' = st.tables /\ ev_log' = st.log /\ success' = st.success
    /\ \E next \in {AfterItem("shots", ev_index, ListOf(incidents_data, "incidents"),
                              ListOf(shotmap_data, "shotmap"))} :
          ev_pc' = next.pc /\ ev_index' = next.index
    /\ UNCHANGED <<ev_source, ev_args, incidents_data, shotmap_data, ev_pending, ev_result,
                 players_table, ev_rest>>

\* return success
ReturnSuccess ==
    /\ ev_pc = "return"
    /\ ev_result' = BoolV(success)
    /\ ev_pc' = "returned"
    /\ UNCHANGED <<ev_source, ev_args, incidents_data, shotmap_data, success, ev_pending, ev_index,
                 players_table, event_tables, ev_log, ev_rest>>

----------------------------------------------------------------------------
(* the payloads of the event phase *)

MaxIncidents == 1   \* a generated incidents payload has up to MaxIncidents incidents
MaxShots == 1       \* a generated shotmap payload has up to MaxShots shots

Player(id) == ObjV([id |-> IntV(id), name |-> TextV("P")])

\* an incident of the home team in minute 10 with further keys
Incident(type, keys) ==
    keys @@ [incidentType |-> TextV(type), time |-> IntV(10), isHome |-> BoolV(TRUE)]

Shot(keys) ==
    keys @@ [incidentType |-> TextV("shot"), time |-> IntV(30), isHome |-> BoolV(FALSE)]

GoalAction ==
    [eventType |-> TextV("goal"), bodyPart |-> TextV("left-foot"), player |-> Player(1),
     goalkeeper |-> Player(3)]

IncidentSpecimens ==
    {Incident("goal", [player |-> Player(1), assist1 |-> Player(2), goalType |-> TextV("regular"),
                       footballPassingNetworkAction |-> <<GoalAction>>]),
     Incident("goal", [goalType |-> TextV("regular")]),
     Incident("goal", [player |-> NoneV]),
     Incident("goal", [player |-> ObjV([id |-> IntV(4)])]),
     Incident("card", [player |-> Player(1), incidentClass |-> TextV("yellow")]),
     Incident("card", [player |-> Player(1)]),
     Incident("card", [manager |-> ObjV([id |-> IntV(9), name |-> TextV("M")]),
                       incidentClass |-> TextV("yellow")]),
     Incident("substitution", [playerIn |-> Player(5), playerOut |-> Player(1)]),
     Incident("substitution", [playerIn |-> Player(5)]),
     Incident("substitution", [playerOut |-> Player(1)]),
     Incident("card", [incidentClass |-> TextV("red")]),
     Incident("varDecision", [incidentClass |-> TextV("goalAwarded")]),
     Incident("period", [text |-> TextV("HT")]),
     Incident("inGamePenalty", [player |-> Player(1)]),
     [incidentType |-> TextV("goal"), isHome |-> BoolV(FALSE), player |-> Player(2)]}

ShotSpecimens ==
    {Shot([player |-> Player(1), goalkeeper |-> Player(3), shotType |-> TextV("miss"),
           situation |-> TextV("penalty"), xg |-> FloatV(79, 100),
           playerCoordinates |-> ObjV([x |-> IntV(11), y |-> IntV(50)])]),
     Shot([player |-> Player(2), shotType |-> TextV("goal"), situation |-> TextV("regular")]),
     Shot([shotType |-> TextV("save")]),
     Shot([player |-> Player(1), shotType |-> TextV("block"), blockCoordinates |-> NoneV]),
     [incidentType |-> TextV("goal"), time |-> IntV(30), isHome |-> BoolV(TRUE), player |-> Player(1)],
     [incidentType |-> TextV("shot"), isHome |-> BoolV(TRUE), player |-> Player(1)]}

\* the sequences of up to n elements of a set
UpTo(set, n) == UNION {[1..k -> set] : k \in 0..n}

Incidents(incidents) == ObjV([incidents |-> incidents])
Shotmap(shotmap) == ObjV([shotmap |-> shotmap])

\* a goal, a card without class and a substitution; a missed penalty
MatchIncidents ==
    Incidents(<<Incident("goal", [player |-> Player(1), assist1 |-> Player(2)]),
                Incident("card", [player |-> Player(2)]),
                Incident("substitution", [playerIn |-> Player(5), playerOut |-> Player(1)])>>)
MatchShotmap ==
    Shotmap(<<Shot([player |-> Player(1), goalkeeper |-> Player(3), shotType |-> TextV("miss"),
                    situation |-> TextV("penalty")])>>)

EventSources ==
    {[incidents |-> Incidents(list), shotmap |-> Shotmap(<<>>)] : list \in UpTo(IncidentSpecimens, MaxIncidents)}
    \cup {[incidents |-> Incidents(<<>>), shotmap |-> Shotmap(list)] : list \in UpTo(ShotSpecimens, MaxShots)}
    \cup {[incidents |-> MatchIncidents, shotmap |-> MatchShotmap],
          [incidents |-> ErrorV(404), shotmap |-> MatchShotmap],
          [incidents |-> MatchIncidents, shotmap |-> ErrorV(403)],
          [incidents |-> ObjV(EmptyDict), shotmap |-> ObjV(EmptyDict)],
          [incidents |-> RaisedV, shotmap |-> MatchShotmap],
          [incidents |-> MatchIncidents, shotmap |-> RaisedV]}

NoEvents == [t \in EventTables |-> <<>>]

EventsInit ==
    /\ NormIdle /\ PlayersIdle /\ TeamStatsIdle /\ MainIdle /\ RoundsIdle /\ DimensionsIdle /\ RerunsIdle /\ SucceededIdle /\ PoolIdle
    /\ ev_source \in EventSources
    /\ ev_args = [match_id |-> 1001, home_team_id |-> 10, away_team_id |-> 20]
    /\ incidents_data = NoneV /\ shotmap_data = NoneV /\ success = TRUE
    /\ ev_pending = {} /\ ev_index = 0 /\ ev_pc = "start" /\ ev_result = NoneV
    /\ players_table = <<>> /\ event_tables = NoEvents /\ ev_log = <<>>

EventsNext ==
    \/ FetchIncidentsAndShots \/ UpsertPlayer \/ AwaitGather \/ ProcessIncident \/ ProcessShot
    \/ ReturnSuccess

SpecEvents == EventsInit /\ [][EventsNext]_vars

----------------------------------------------------------------------------
(* the statements of the event phase *)

\* the statements of the log on a sub-record table
SubStatements == {i \in 1..Len(ev_log) : ev_log[i].table \in SubRecordTables}
\* the statements of the log on match_event_base
BaseStatements == {i \in 1..Len(ev_log) : ev_log[i].table = "match_event_base"}

\* C12: every insert into a sub-record table (goal, card, substitution, VAR
\* decision, shot, missed penalty) is issued after the base-event insert of
\* the same incident or shot returned an event_id, and carries that event_id;
\* when the base insert of an incident or shot fails, no sub-record insert is
\* issued for it.
C12_SubRecordAfterBaseEvent ==
    /\ \A i \in SubStatements :
          \E j \in BaseStatements :
             /\ j < i
             /\ ev_log[j].item = ev_log[i].item
             /\ ~IsNone(ev_log[j].returned)
             /\ ev_log[i].params.event_id = ev_log[j].returned.items["event_id"]
    /\ \A j \in BaseStatements :
          IsNone(ev_log[j].returned) =>
             \A i \in SubStatements : ev_log[i].item # ev_log[j].item

\* the call returned after a base insert failed for one incident and a later
\* shot got its shot and missed-penalty records
C12_Witness ==
    /\ ev_pc = "returned"
    /\ \E j \in BaseStatements : IsNone(ev_log[j].returned)
    /\ \E i \in SubStatements :
          /\ ev_log[i].table = "missed_penalty_events"
          /\ ev_log[i].params.event_id.v > 1

\* the statements of the log that upsert a player
PlayerStatements == {i \in 1..Len(ev_log) : ev_log[i].table = "players"}

\* the parameters of a base event or sub-record that hold a player id
PlayerColumns == {"player_id", "scoring_player_id", "assist_player_id", "player_in_id",
                  "player_out_id", "shooter_player_id", "goalkeeper_id"}

\* the players of the payloads have been upserted, in whatever order, before
\* the first base event is inserted
UpsertsBeforeFirstBaseEvent ==
    /\ \A i \in PlayerStatements : \A j \in BaseStatements : i < j
    /\ BaseStatements # {} => ev_pending = {}

\* C17: the player upserts of a match run in no order among themselves, are
\* all completed before the first base-event insert of the match, and every
\* non-null player id written into a base event or a sub-record of the match
\* has been upserted in that phase.
C17_PlayersUpsertedBeforeEvents ==
    /\ UpsertsBeforeFirstBaseEvent
    /\ \A i \in BaseStatements \cup SubStatements :
          \A c \in PlayerColumns \cap DOMAIN ev_log[i].params :
             ~IsNone(ev_log[i].params[c]) =>
                \E k \in PlayerStatements :
                   k < i /\ ev_log[k].params.player_id = ev_log[i].params[c]

\* a goal row names scorer 4, a player whose payload entry has no name, and
\* no statement of the phase upserted player 4
C17_Witness ==
    /\ ev_pc = "returned"
    /\ \E i \in SubStatements :
          /\ ev_log[i].table = "goal_events" /\ ev_log[i].ok
          /\ ev_log[i].params.scoring_player_id = IntV(4)
    /\ \A k \in PlayerStatements : ev_log[k].params.player_id # IntV(4)

\* what the code keeps of C17: the upserts come before the first base event,
\* and the ids written belong to players of the payloads that were upserted
\* or have no name
C17_NamedPlayersUpsertedBeforeEvents ==
    /\ UpsertsBeforeFirstBaseEvent
    /\ \A i \in BaseStatements \cup SubStatements :
          \A c \in PlayerColumns \cap DOMAIN ev_log[i].params :
             ~IsNone(ev_log[i].params[c]) =>
                \/ \E k \in PlayerStatements :
                      k < i /\ ev_log[k].params.player_id = ev_log[i].params[c]
                \/ LET players == unique_players(ListOf(incidents_data, "incidents"),
                                                 ListOf(shotmap_data, "shotmap"))
                   IN /\ ev_log[i].params[c].v \in DOMAIN players
                      /\ ~Has(players[ev_log[i].params[c].v].items, "name")

\* the rows of the sub-record table that refer to a base event
SubRecordsOf(table, event_id) ==
    {i \in 1..Len(event_tables[table]) : event_tables[table][i].event_id = event_id}

\* the sub-record tables with a row that refers to a base event
TablesOf(event_id) == {t \in SubRecordTables : SubRecordsOf(t, event_id) # {}}

BaseRows == {event_tables["match_event_base"][i] : i \in 1..Len(event_tables["match_event_base"])}

\* C19 as stated: after the event phase every base event row is referenced by
\* exactly one specialized sub-record, never by none and never by two.
C19_ExactlyOneSubRecord ==
    ev_pc = "returned" =>
       \A row \in BaseRows :
          /\ Cardinality(TablesOf(row.event_id)) = 1
          /\ \A t \in TablesOf(row.event_id) : Cardinality(SubRecordsOf(t, row.event_id)) = 1

\* C19: after the event phase every specialized sub-record refers to exactly
\* one base event row, and every base event row is referenced by at most one
\* sub-record of each kind: by none (a goal without scorer, a card without
\* class, an incident of another type, a sub-record the storage refused), by
\* one, or by a shot record and a missed-penalty record (a missed-penalty shot).
C19_AtMostOneSubRecordOfEachKind ==
    /\ \A t \in SubRecordTables : \A i \in 1..Len(event_tables[t]) :
          Cardinality({row \in BaseRows : row.event_id = event_tables[t][i].event_id}) = 1
    /\ Cardinality(BaseRows) = Len(event_tables["match_event_base"])
    /\ \A row \in BaseRows :
          /\ \A t \in SubRecordTables : Cardinality(SubRecordsOf(t, row.event_id)) <= 1
          /\ \/ Cardinality(TablesOf(row.event_id)) <= 1
             \/ TablesOf(row.event_id) = {"shot_events", "missed_penalty_events"}

\* the phase returned with a card event without sub-record and a shot event
\* with two of them
C19_Witness ==
    /\ ev_pc = "returned"
    /\ \E row \in BaseRows : row.event_type = TextV("card") /\ TablesOf(row.event_id) = {}
    /\ \E row \in BaseRows : TablesOf(row.event_id) = {"shot_events", "missed_penalty_events"}

----------------------------------------------------------------------------
(* Properties of the phases of a match, under Spec *)

\* the phases of a match that return a success flag
Phases == {"team_stats", "player_stats", "incidents_shots"}

\* a phase of the match under work returned True
Succeeded(phase) == phase \in DOMAIN outcomes /\ outcomes[phase] = "True"

\* a phase of the match under work returned False or raised, or the update of
\* the aggregates raised
SomePhaseFailed == \E phase \in DOMAIN outcomes : outcomes[phase] \in {"False", "raised"}

\* the finally block of a match has just run
MatchFinished == main_pc \in {"details", "summary"} /\ outcomes # <<>>

\* the match whose finally block has just run
FinishedMatch == IF main_pc = "details" THEN all_match_ids[match_index - 1] ELSE match_id

\* the rows of a match in team_match_stats
TeamRowsOf(m) == {n \in 1..Len(team_match_stats) : team_match_stats[n]["match_id"] = IntV(m)}

\* the rows of a match in player_match_stats
PlayerRowsOf(m) == {n \in 1..Len(player_match_stats) : player_match_stats[n]["match_id"] = IntV(m)}

\* C13: when the team-stat, the player-stat or the event phase of a match
\* reports failure, each of the other phases is still attempted, and at the
\* end of the match its id is in the failed set if and only if at least one
\* phase or the update of the aggregates failed.
C13_FailedIffAPhaseFailed ==
    /\ main_pc = "finally" => Phases \subseteq DOMAIN outcomes
    /\ MatchFinished =>
          /\ Phases \subseteq DOMAIN outcomes
          /\ FinishedMatch \in failed_match_ids_detailed <=> SomePhaseFailed

\* the first match is over: its team-stat phase failed, its two other phases
\* ran and succeeded, and its id is in the failed set
C13_Witness ==
    /\ MatchFinished /\ main_pc = "details" /\ match_index = 2
    /\ outcomes["team_stats"] = "False"
    /\ Succeeded("player_stats") /\ Succeeded("incidents_shots")
    /\ all_match_ids[1] \in failed_match_ids_detailed

\* C14: a storage failure behind the batch upsert of the team stats is
\* reported as a boolean failure: when process_team_stats_for_match returned
\* True, the rows of the match are in team_match_stats.
C14_StorageFailureReported ==
    Succeeded("team_stats") => TeamRowsOf(match_id) # {}

\* the team-stat phase of a match returned True and team_match_stats has no
\* row of the match
C14_Witness ==
    /\ main_pc = "player_stats" /\ run_no = 1
    /\ Succeeded("team_stats")
    /\ TeamRowsOf(match_id) = {}

\* the update of the aggregates of the match under work was called
AggregatesCalled == main_pc \in {"incidents_shots", "except", "finally"} /\ "aggregates" \in DOMAIN outcomes

\* C18: update_team_match_aggregates is called for a match only after the
\* team stats and the player stats of that match were persisted in the same
\* pass, and never when the team-stat phase or the player-stat phase failed.
C18_AggregatesAfterBothPersisted ==
    AggregatesCalled =>
       /\ Succeeded("team_stats") /\ Succeeded("player_stats")
       /\ TeamRowsOf(match_id) # {} /\ PlayerRowsOf(match_id) # {}

\* the update was called for a match whose team-stat phase returned False
C18_Witness ==
    /\ AggregatesCalled
    /\ outcomes["team_stats"] = "False"
    /\ TeamRowsOf(match_id) = {}

\* what the code keeps of C18: the update is only called after the player-stat
\* phase returned True with aggregates
C18_AggregatesAfterPlayerStats ==
    AggregatesCalled => Succeeded("player_stats") /\ ~IsNone(team_aggregates)

----------------------------------------------------------------------------
(* Properties of the defaults of the team stat tuples, under SpecTeamStats *)

\* the columns of a ratio or percentage
PercentageColumns ==
    {key \in ColumnSet :
        HasSubstring(ColumnChars[key], <<"p", "e", "r", "c", "e", "n", "t", "a", "g", "e">>)}

\* the columns of a count: the others, without the key of the row and the
\* columns of the aggregates
CounterColumns ==
    ColumnSet \ (PercentageColumns \cup {"match_id", "team_id", "is_home_team", "period", "formation",
                                         "average_team_rating", "total_team_market_value_eur"})

\* the source has this column for this tuple: possession_percentage in the
\* period of the only item of a possession payload, nothing else
InSource(tuple, key) ==
    key = "possession_percentage" /\ tuple[ColumnIndex("period")] = StrV(ts_input.period)

\* C15: in every tuple of the team stat builder, each count column whose
\* statistic is absent from the source (total_shots, blocked_shots,
\* hit_woodwork, fouled_final_third and every *_successful and *_total column
\* among them) is 0, and each ratio or percentage column whose statistic is
\* absent is null.
C15_AbsentCountersZero ==
    (StatsParsed /\ PossessionForm) =>
        \A n \in 1..Len(ts_batch) :
           /\ \A key \in CounterColumns : ts_batch[n][ColumnIndex(key)] = IntV(0)
           /\ \A key \in PercentageColumns :
                 ~InSource(ts_batch[n], key) => ts_batch[n][ColumnIndex(key)] = NoneV

\* the tuples of a payload that has only "Ball possession": corners and
\* passes_total are 0, total_shots is null
C15_Witness ==
    /\ StatsParsed /\ PossessionForm /\ Len(ts_batch) > 0
    /\ \A n \in 1..Len(ts_batch) :
          /\ ts_batch[n][ColumnIndex("corners")] = IntV(0)
          /\ ts_batch[n][ColumnIndex("passes_total")] = IntV(0)
          /\ ts_batch[n][ColumnIndex("total_shots")] = NoneV

\* what the code keeps of C15: an absent column is 0 when its name holds one
\* of the patterns of the default, which leaves out total_shots, blocked_shots,
\* hit_woodwork and fouled_final_third, and null otherwise
C15_AbsentZeroByName ==
    /\ CounterColumns \ ZeroDefaultColumns =
          {"total_shots", "blocked_shots", "hit_woodwork", "fouled_final_third"}
    /\ ZeroDefaultColumns \subseteq CounterColumns
    /\ (StatsParsed /\ PossessionForm) =>
          \A n \in 1..Len(ts_batch) : \A key \in CounterColumns \cup PercentageColumns :
             ~InSource(ts_batch[n], key) =>
                ts_batch[n][ColumnIndex(key)] = IF key \in ZeroDefaultColumns THEN IntV(0) ELSE NoneV

----------------------------------------------------------------------------
(* Properties of the player ids of the player records, under SpecPlayers *)

\* the records _parse_player_lineup_data gave for the two teams
ParsedPlayers ==
    IF ~Parsed THEN <<>>
    ELSE pl_parsed.home_team_info.players \o pl_parsed.away_team_info.players

\* the lineup entries of the payload
LineupEntries ==
    IF IsNone(pl_lineup) THEN <<>>
    ELSE Get(Get(pl_lineup.items, "home", EmptyDict), "players", <<>>)
         \o Get(Get(pl_lineup.items, "away", EmptyDict), "players", <<>>)

\* C20: the player stat record builder emits no record for a lineup entry
\* without a resolvable player id (player.id missing or null): every record
\* it gives has a non-null player_id, whether or not the entry has statistics.
C20_NoRecordWithoutPlayerId ==
    \A n \in 1..Len(ParsedPlayers) : ~IsNone(ParsedPlayers[n]["player_id"])

\* a record of an entry that has statistics and no player: its player_id is null
C20_Witness ==
    /\ \E n \in 1..Len(LineupEntries) :
          /\ "player" \notin DOMAIN LineupEntries[n]
          /\ "statistics" \in DOMAIN LineupEntries[n]
    /\ \E n \in 1..Len(ParsedPlayers) : IsNone(ParsedPlayers[n]["player_id"])

\* what the code keeps of C20: a record is given for exactly the entries with
\* statistics, in their order, with the player id of the entry or null
C20_RecordPerEntryWithStatistics ==
    Parsed =>
       LET with == SelectSeq(LineupEntries,
                             LAMBDA e : ~Falsy(ObjV(Get(e, "statistics", EmptyDict))))
       IN /\ Len(ParsedPlayers) = Len(with)
          /\ \A n \in 1..Len(with) :
                ParsedPlayers[n]["player_id"] = Get(Get(with[n], "player", EmptyDict), "id", NoneV)

----------------------------------------------------------------------------
(* extractors/id_extractor.py: the listing of one round. A task of           *)
(* _process_event_data is one action per upsert it awaits, so that the tasks *)
(* of asyncio.gather interleave at every statement. The tables tournaments,  *)
(* seasons and teams, which nothing reads, are present by the statements     *)
(* issued on them.                                                           *)

_DEFAULT_TOURNAMENT_ID == 8
_DEFAULT_SEASON_ID == 32501

\* an upsert statement of the listing: its table and the id of its row
Upsert(table, id) == [table |-> table, id |-> id]

\* the keyword arguments of the call of upsert_match and its parameters, those
\* without a default among them
UpsertMatchKeywords ==
    {"match_id", "season_id", "round_num", "round_name", "dt_utc", "home_id", "away_id",
     "home_score", "away_score", "ht_home", "ht_away"}
UpsertMatchParams ==
    {"match_id", "season_id", "round_num", "dt_utc", "home_id", "away_id", "home_score",
     "away_score", "ht_home", "ht_away"}
UpsertMatchRequired == {"match_id", "season_id", "round_num", "dt_utc", "home_id", "away_id"}

\* upsert_match: matches after the statement
upsert_match(rows, id, home_id, away_id, db_ok) ==
    IF db_ok
    THEN [m \in DOMAIN rows \cup {id} |->
             IF m = id THEN [home_team_id |-> home_id, away_team_id |-> away_id] ELSE rows[m]]
    ELSE rows

\* event.get(key, {}).get("id")
IdOfEvent(event, key) == Get(Get(event, key, ObjV(EmptyDict)).items, "id", NoneV)

\* the event is left out: its status is not code 100, or an id or the timestamp is missing
Skipped(event) ==
    \/ Get(event, "status", ObjV(EmptyDict)).kind # "obj"
    \/ Get(Get(event, "status", ObjV(EmptyDict)).items, "code", NoneV) # IntV(100)
    \/ \E value \in {Get(event, "id", NoneV), IdOfEvent(event, "homeTeam"),
                     IdOfEvent(event, "awayTeam"), Get(event, "startTimestamp", NoneV)} : Falsy(value)

\* tournament_id and season_id of an event, with the defaults
TournamentIdOf(event) ==
    Get(Get(Get(event, "tournament", ObjV(EmptyDict)).items, "uniqueTournament", ObjV(EmptyDict)).items,
        "id", IntV(_DEFAULT_TOURNAMENT_ID))
SeasonIdOf(event) == Get(Get(event, "season", ObjV(EmptyDict)).items, "id", IntV(_DEFAULT_SEASON_ID))

\* _process_event_data from pc on up to its next await: the statement issued,
\* if any, the pc after it and the value returned when the task is over
_process_event_data(event, pc) ==
    CASE pc = "start" ->
            IF Skipped(event) THEN [issued |-> <<>>, pc |-> "done", result |-> NoneV]
            ELSE [issued |-> <<Upsert("tournaments", TournamentIdOf(event))>>, pc |-> "season",
                  result |-> NoneV]
      [] pc = "season" ->
            [issued |-> <<Upsert("seasons", SeasonIdOf(event))>>, pc |-> "home_team", result |-> NoneV]
      [] pc = "home_team" ->
            [issued |-> <<Upsert("teams", IdOfEvent(event, "homeTeam"))>>, pc |-> "away_team",
             result |-> NoneV]
      [] pc = "away_team" ->
            [issued |-> <<Upsert("teams", IdOfEvent(event, "awayTeam"))>>, pc |-> "match",
             result |-> NoneV]
      [] pc = "match" ->
            IF UpsertMatchKeywords \subseteq UpsertMatchParams /\ UpsertMatchRequired \subseteq UpsertMatchKeywords
            THEN [issued |-> <<Upsert("matches", event["id"])>>, pc |-> "done", result |-> event["id"]]
            ELSE [issued |-> <<>>, pc |-> "done", result |-> NoneV]

\* sorted(list(set(processed_match_ids))), as the set of the ids
ProcessedMatchIds(returned) ==
    {returned[t].v : t \in {u \in DOMAIN returned : ~IsNone(returned[u])}}

\* a finished event of match k, with or without the tournament and the season
RoundEvent(k, known) ==
    [id |-> IntV(1000 + k), status |-> ObjV([code |-> IntV(100)]),
     homeTeam |-> ObjV([id |-> IntV(10 * k), name |-> TextV("H")]),
     awayTeam |-> ObjV([id |-> IntV(10 * k + 10), name |-> TextV("A")]),
     startTimestamp |-> IntV(1600000000)]
    @@ (IF known THEN [tournament |-> ObjV([uniqueTournament |-> ObjV([id |-> IntV(8)])]),
                       season |-> ObjV([id |-> IntV(32501)])]
        ELSE EmptyDict)

\* events that are left out: not finished, without the id of the away team,
\* with a status that is no object
LeftOutEvents ==
    {[RoundEvent(9, TRUE) EXCEPT !["status"] = ObjV([code |-> IntV(0)])],
     [RoundEvent(9, TRUE) EXCEPT !["awayTeam"] = ObjV([name |-> TextV("A")])],
     [RoundEvent(9, TRUE) EXCEPT !["status"] = TextV("finished")]}

\* the events of the round: the matches of the run, then one that is left out or none
RoundPayloads ==
    {[k \in 1..MaxMatches |-> RoundEvent(k, known[k])] \o extra :
        known \in [1..MaxMatches -> BOOLEAN], extra \in {<<>>} \cup {<<e>> : e \in LeftOutEvents}}

ListingInit ==
    /\ NormIdle /\ PlayersIdle /\ TeamStatsIdle /\ EventsIdle /\ DimensionsIdle /\ RerunsIdle /\ SucceededIdle /\ PoolIdle
    /\ source = <<>> /\ matches = <<>> /\ team_match_stats = <<>> /\ player_match_stats = <<>>
    /\ run_no = 1 /\ main_pc = "listing" /\ match_index = 0
    /\ match_details = NoneV /\ match_processing_failed = FALSE /\ player_stats_success = FALSE
    /\ team_aggregates = NoneV /\ stopped = FALSE
    /\ successful_team_stats_count = 0 /\ successful_player_stats_count = 0
    /\ successful_incidents_shots_count = 0 /\ failed_match_ids_detailed = {}
    /\ first_run = NoneV /\ outcomes = <<>>
    /\ rd_events \in RoundPayloads
    /\ rd_pc = <<>> /\ rd_log = <<>> /\ results = <<>>

\* scrape_round_match_ids up to asyncio.gather: a task for each event of the round
ScrapeRound ==
    /\ main_pc = "listing"
    /\ rd_pc' = [t \in 1..Len(rd_events) |-> "start"]
    /\ rd_log' = [t \in 1..Len(rd_events) |-> <<>>]
    /\ results' = [t \in 1..Len(rd_events) |-> NoneV]
    /\ main_pc' = "gather"
    /\ UNCHANGED <<rd_events, source, db_vars, run_no, match_index, match_vars, count_vars,
                 first_run, outcomes, listing_rest>>

\* a task of the gather runs up to its next await; the statement on matches
\* reaches the table or not (db_ok)
ProcessEventData ==
    /\ main_pc = "gather"
    /\ \E t \in DOMAIN rd_pc :
          /\ rd_pc[t] # "done"
          /\ \E step \in {_process_event_data(rd_events[t], rd_pc[t])} :
                /\ rd_pc' = [rd_pc EXCEPT ![t] = step.pc]
                /\ rd_log' = [rd_log EXCEPT ![t] = @ \o step.issued]
                /\ results' = [results EXCEPT ![t] = step.result]
                /\ IF \E i \in 1..Len(step.issued) : step.issued[i].table = "matches"
                   THEN \E db_ok \in BOOLEAN :
                           matches' = upsert_match(matches, rd_events[t]["id"].v,
                                                   IdOfEvent(rd_events[t], "homeTeam").v,
                                                   IdOfEvent(rd_events[t], "awayTeam").v, db_ok)
                   ELSE matches' = matches
    /\ UNCHANGED <<rd_events, source, team_match_stats, player_match_stats, run_no, main_pc,
                 match_index, match_vars, count_vars, first_run, outcomes, listing_rest>>

\* the gather is over; main() ends when the round gave no match ids
GatherRound ==
    /\ main_pc = "gather"
    /\ \A t \in DOMAIN rd_pc : rd_pc[t] = "done"
    /\ main_pc' = IF ProcessedMatchIds(results) = {} THEN "finished" ELSE "start"
    /\ UNCHANGED <<rd_vars, source, db_vars, run_no, match_index, match_vars, count_vars,
                 first_run, outcomes, listing_rest>>

ListingNext == ScrapeRound \/ ProcessEventData \/ GatherRound

SpecListing == ListingInit /\ [][ListingNext]_vars

----------------------------------------------------------------------------
(* Properties of the Match rows, under SpecListing and Spec *)

\* every row of the stat tables and of match_event_base has the id of a row of matches
RowsReferToMatch ==
    /\ \A n \in 1..Len(team_match_stats) : team_match_stats[n]["match_id"].v \in DOMAIN matches
    /\ \A n \in 1..Len(player_match_stats) : player_match_stats[n]["match_id"].v \in DOMAIN matches
    /\ \A table \in DOMAIN event_tables : table = "match_event_base" =>
          \A n \in 1..Len(event_tables[table]) : event_tables[table][n].match_id.v \in DOMAIN matches

\* the loop is past match k of all_match_ids
Passed(k) == k < match_index \/ (k = match_index /\ main_pc \in {"summary", "finished"})

\* a match without a row in matches that the loop is past is in the failed set
SkippedMatchFailed ==
    \A k \in 1..MaxMatches :
       (Passed(k) /\ all_match_ids[k] \notin DOMAIN matches) =>
          all_match_ids[k] \in failed_match_ids_detailed

\* the statements of a task before its statement i
Before(t, i) == {rd_log[t][j] : j \in 1..(i - 1)}

\* the upsert of a match comes after those of its tournament, its season and its two teams
ListedInOrder ==
    \A t \in DOMAIN rd_log : \A i \in 1..Len(rd_log[t]) :
       rd_log[t][i].table = "matches" =>
          {Upsert("tournaments", TournamentIdOf(rd_events[t])),
           Upsert("seasons", SeasonIdOf(rd_events[t])),
           Upsert("teams", IdOfEvent(rd_events[t], "homeTeam")),
           Upsert("teams", IdOfEvent(rd_events[t], "awayTeam"))} \subseteq Before(t, i)

\* the task of a finished event with its ids, once over, has upserted the match
MatchListed ==
    \A t \in DOMAIN rd_pc :
       (rd_pc[t] = "done" /\ ~Skipped(rd_events[t])) =>
          \E i \in 1..Len(rd_log[t]) : rd_log[t][i] = Upsert("matches", rd_events[t]["id"])

C16_NoMatchListed ==
    /\ ListedInOrder
    /\ matches = <<>>
    /\ \A t \in DOMAIN results : IsNone(results[t])

\* what the code keeps of C16 in the loop over the matches, under Spec
C16_RowsOfListedMatches == RowsReferToMatch /\ SkippedMatchFailed

----------------------------------------------------------------------------
(* Properties of the defaults of the player records, under SpecPlayers *)

\* the lineup entries that have statistics, for which a record is built
EntriesWithStatistics ==
    SelectSeq(LineupEntries, LAMBDA e : ~Falsy(ObjV(Get(e, "statistics", EmptyDict))))

\* the entries of SOFASCORE_PLAYER_STATS_MAP that feed a counter of the record:
\* a statistic of the record whose default is the text 0
CounterEntries ==
    {j \in 1..Len(SOFASCORE_PLAYER_STATS_MAP) :
        /\ SOFASCORE_PLAYER_STATS_MAP[j][2] \in FINAL_STATS_KEYS
        /\ DEFAULT_PLAYER_STATS[SOFASCORE_PLAYER_STATS_MAP[j][2]] = StrV(<<"0">>)}

\* the entries that feed the floats of the record: the rating and the expected goals
FloatEntries ==
    {j \in 1..Len(SOFASCORE_PLAYER_STATS_MAP) :
        SOFASCORE_PLAYER_STATS_MAP[j][2] \in {"Rating", "Expected goals"}}

\* the source does not report the statistic: no key, null, or the text N/A
NotReported(stats_raw, api_key) ==
    \/ api_key \notin DOMAIN stats_raw
    \/ IsNone(stats_raw[api_key])
    \/ stats_raw[api_key] = StrV(<<"N", "/", "A">>)

IsZero(x) == IsNumber(x) /\ NumOf(x) = 0

\* C21: in every built player record a counter that the source does not
\* report has the value 0, and a rating or expected-goals float that the
\* source does not report (or reports as N/A) has the value null, never 0.
C21_AbsentCountersZeroFloatsNull ==
    Parsed =>
       \A n \in 1..Len(ParsedPlayers) :
          /\ \A j \in CounterEntries :
                NotReported(StatsOfEntry(EntriesWithStatistics[n]), SOFASCORE_PLAYER_STATS_MAP[j][1]) =>
                   IsZero(ParsedPlayers[n][SOFASCORE_PLAYER_STATS_MAP[j][2]])
          /\ \A j \in FloatEntries :
                NotReported(StatsOfEntry(EntriesWithStatistics[n]), SOFASCORE_PLAYER_STATS_MAP[j][1]) =>
                   IsNone(ParsedPlayers[n][SOFASCORE_PLAYER_STATS_MAP[j][2]])

\* a record of an entry whose rating is reported as N/A and whose expected
\* goals are absent: both floats of the record are 0
C21_Witness ==
    /\ Parsed
    /\ \E n \in 1..Len(ParsedPlayers) :
          /\ Get(StatsOfEntry(EntriesWithStatistics[n]), "rating", NoneV) = StrV(<<"N", "/", "A">>)
          /\ "expectedGoals" \notin DOMAIN StatsOfEntry(EntriesWithStatistics[n])
          /\ ParsedPlayers[n]["Rating"] = IntV(0)
          /\ IsZero(ParsedPlayers[n]["Expected goals"])
          /\ IsZero(ParsedPlayers[n]["Touches"])

\* what the code keeps of C21: a counter or a float that the source does not
\* report is 0 in the record
C21_NotReportedIsZero ==
    Parsed =>
       \A n \in 1..Len(ParsedPlayers) : \A j \in CounterEntries \cup FloatEntries :
          NotReported(StatsOfEntry(EntriesWithStatistics[n]), SOFASCORE_PLAYER_STATS_MAP[j][1]) =>
             IsZero(ParsedPlayers[n][SOFASCORE_PLAYER_STATS_MAP[j][2]])

----------------------------------------------------------------------------
(* database_utils/db_utils.py: the upserts of the dimension tables and of    *)
(* matches. A table with a primary key is a function from the id to the     *)
(* other columns of its row, so that an id has at most one row. Of the       *)
(* columns of matches the two team ids are kept.                            *)

\* upsert_tournament: INSERT INTO tournaments ... ON CONFLICT (tournament_id) DO NOTHING
upsert_tournament(table, tournament_id, name, country, db_ok) ==
    IF db_ok /\ tournament_id \notin DOMAIN table
    THEN Put(table, tournament_id, [name |-> name, country_name |-> country])
    ELSE table

\* upsert_season: INSERT INTO seasons ... ON CONFLICT (season_id) DO NOTHING
upsert_season(table, season_id, tournament_id, name, db_ok) ==
    IF db_ok /\ season_id \notin DOMAIN table
    THEN Put(table, season_id, [tournament_id |-> tournament_id, name |-> name])
    ELSE table

\* upsert_team: INSERT INTO teams ... ON CONFLICT (team_id) DO UPDATE SET name, country
upsert_team(table, team_id, name, country, db_ok) ==
    IF db_ok THEN Put(table, team_id, [name |-> name, country |-> country]) ELSE table

MaxDimId == 2      \* the ids of the rows upserted run over 1..MaxDimId
MaxUpserts == 3    \* the upserts called in one behaviour

DimensionTables == {"tournaments", "seasons", "teams", "players", "matches"}
DimNames == {TextV("a"), TextV("b")}

\* a behaviour upserts into one table: the other tables are empty
Only(table) == \A other \in DimensionTables \ {table} : dim_tables[other] = <<>>

\* the tables and the history after an upsert of row under id into table
Upserted(table, id, after, row, db_ok) ==
    /\ dim_tables' = [dim_tables EXCEPT ![table] = after]
    /\ dim_latest' = IF db_ok THEN [dim_latest EXCEPT ![table] = Put(@, id, row)] ELSE dim_latest
    /\ dim_calls' = dim_calls + 1
    /\ UNCHANGED dim_rest

DimensionsInit ==
    /\ NormIdle /\ PlayersIdle /\ TeamStatsIdle /\ MainIdle /\ EventsIdle /\ RoundsIdle /\ RerunsIdle /\ SucceededIdle /\ PoolIdle
    /\ dim_tables = [table \in DimensionTables |-> <<>>]
    /\ dim_latest = [table \in DimensionTables |-> <<>>]
    /\ dim_calls = 0

UpsertTournament ==
    /\ dim_calls < MaxUpserts /\ Only("tournaments")
    /\ \E id \in 1..MaxDimId, name \in DimNames, country \in DimNames \cup {NoneV}, db_ok \in BOOLEAN :
          Upserted("tournaments", id,
                   upsert_tournament(dim_tables["tournaments"], id, name, country, db_ok),
                   [name |-> name, country_name |-> country], db_ok)

UpsertSeason ==
    /\ dim_calls < MaxUpserts /\ Only("seasons")
    /\ \E id \in 1..MaxDimId, tournament_id \in 1..MaxDimId, name \in DimNames, db_ok \in BOOLEAN :
          Upserted("seasons", id,
                   upsert_season(dim_tables["seasons"], id, tournament_id, name, db_ok),
                   [tournament_id |-> tournament_id, name |-> name], db_ok)

UpsertTeam ==
    /\ dim_calls < MaxUpserts /\ Only("teams")
    /\ \E id \in 1..MaxDimId, name \in DimNames, country \in DimNames \cup {NoneV}, db_ok \in BOOLEAN :
          Upserted("teams", id, upsert_team(dim_tables["teams"], id, name, country, db_ok),
                   [name |-> name, country |-> country], db_ok)

UpsertPlayerRow ==
    /\ dim_calls < MaxUpserts /\ Only("players")
    /\ \E id \in 1..MaxDimId, name \in DimNames, height \in {NoneV, IntV(180)}, db_ok \in BOOLEAN :
          Upserted("players", id,
                   upsert_player(dim_tables["players"], id, name, height, NoneV, NoneV, db_ok),
                   [name |-> name, height_cm |-> height, primary_position |-> NoneV,
                    country_name |-> NoneV], db_ok)

UpsertMatch ==
    /\ dim_calls < MaxUpserts /\ Only("matches")
    /\ \E id \in 1..MaxDimId, home_id \in 1..MaxDimId, away_id \in 1..MaxDimId, db_ok \in BOOLEAN :
          Upserted("matches", id, upsert_match(dim_tables["matches"], id, home_id, away_id, db_ok),
                   [home_team_id |-> home_id, away_team_id |-> away_id], db_ok)

DimensionsNext == UpsertTournament \/ UpsertSeason \/ UpsertTeam \/ UpsertPlayerRow \/ UpsertMatch

SpecUpserts == DimensionsInit /\ [][DimensionsNext]_vars

----------------------------------------------------------------------------
(* Properties of the upserts, under SpecUpserts *)

\* the row stored under every id upserted into the table is the row of the
\* last upsert of the id that went through
LatestStored(table) ==
    \A id \in DOMAIN dim_latest[table] :
       id \in DOMAIN dim_tables[table] /\ dim_tables[table][id] = dim_latest[table][id]

\* C22: for tournament, season, team, player and match, the upsert of an id
\* that exists already, with other values for its mutable columns, leaves the
\* stored row equal to the latest values, and the id keeps one row.
C22_LaterSightingsOverwrite == \A table \in DOMAIN dim_tables : LatestStored(table)

\* a tournament upserted twice, with two names: the row has the first name
C22_Witness ==
    /\ dim_calls >= 2
    /\ \E id \in DOMAIN dim_latest["tournaments"] :
          /\ id \in DOMAIN dim_tables["tournaments"]
          /\ dim_tables["tournaments"][id].name # dim_latest["tournaments"][id].name

\* what the code keeps of C22: the rows of teams, players and matches are
\* those of the last upsert
C22_TeamsPlayersMatchesOverwritten ==
    \A table \in DOMAIN dim_tables \cap {"teams", "players", "matches"} : LatestStored(table)

\* and the rows of tournaments and seasons are those of the first upsert: a
\* row that exists is not changed
C22_TournamentsSeasonsKeepFirst ==
    [][\A table \in DOMAIN dim_tables \cap {"tournaments", "seasons"} :
          \A id \in DOMAIN dim_tables[table] :
             id \in DOMAIN dim_tables'[table] /\ dim_tables'[table][id] = dim_tables[table][id]]_vars

----------------------------------------------------------------------------
(* The loop of main() over matches that the database holds rows of already:  *)
(* the rows of an earlier pass over the first match, with the aggregate      *)
(* columns of its period ALL rows filled                                     *)

AggregateColumns == {"formation", "average_team_rating", "total_team_market_value_eur"}

\* the period ALL rows of a match in a table
AllPeriodRows(table, m) ==
    {n \in 1..Len(table) : table[n]["match_id"] = IntV(m) /\ table[n]["period"] = StrV("ALL")}

\* team_match_stats after an earlier pass over the first match that filled
\* the aggregate columns
EarlierPass ==
    LET Filled(table) ==
            [n \in 1..Len(table) |->
                IF n \in AllPeriodRows(table, all_match_ids[1])
                THEN [c \in DOMAIN table[n] |->
                         CASE c = "formation" -> StrV(<<"4", "-", "4", "-", "2">>)
                           [] c = "average_team_rating" -> FloatV(7, 1)
                           [] c = "total_team_market_value_eur" -> IntV(7000000)
                           [] OTHER -> table[n][c]]
                ELSE table[n]]
    IN Filled(insert_team_stats_batch(<<>>,
                  _parse_statistics_data(<<Period("ALL", MatchItems)>>, all_match_ids[1],
                                         MatchRow(1).home_team_id, MatchRow(1).away_team_id, FALSE),
                  TRUE))

ReingestionInit ==
    /\ NormIdle /\ PlayersIdle /\ TeamStatsIdle /\ EventsIdle /\ RoundsIdle /\ DimensionsIdle /\ RerunsIdle /\ SucceededIdle /\ PoolIdle
    /\ source \in {f \in [{all_match_ids[k] : k \in 1..MaxMatches} -> UNION {SourceOf(k) : k \in 1..MaxMatches}] :
                      \A k \in 1..MaxMatches : f[all_match_ids[k]] \in SourceOf(k)}
    /\ \E n \in (MaxMatches - 1)..MaxMatches :
          matches = [m \in {all_match_ids[k] : k \in 1..n} |->
                        MatchRow(CHOOSE k \in 1..n : all_match_ids[k] = m)]
    /\ team_match_stats = EarlierPass
    /\ player_match_stats = <<>>
    /\ run_no = 1
    /\ main_pc = "start"
    /\ match_index = 0
    /\ match_details = NoneV /\ match_processing_failed = FALSE /\ player_stats_success = FALSE
    /\ team_aggregates = NoneV /\ stopped = FALSE
    /\ successful_team_stats_count = 0 /\ successful_player_stats_count = 0
    /\ successful_incidents_shots_count = 0 /\ failed_match_ids_detailed = {}
    /\ first_run = NoneV /\ outcomes = <<>>

SpecReingestion == ReingestionInit /\ [][Next]_vars

----------------------------------------------------------------------------
(* Properties of the aggregate columns, under SpecReingestion *)

\* the tuples the team-stat phase of the match under work builds
StatsBatch ==
    IF source[match_id].stats.kind = "list"
    THEN _parse_statistics_data(source[match_id].stats.items, match_id, match_details.home_team_id,
                                match_details.away_team_id, FALSE)
    ELSE <<>>

\* the step is the team-stat phase and its batch upsert is applied
BatchApplied ==
    /\ main_pc = "team_stats"
    /\ Len(StatsBatch) > 0
    /\ \A n \in 1..Len(StatsBatch) : Sendable(StatsBatch[n], TeamStatsPlaceholders)
    /\ team_match_stats' = insert_team_stats_batch(team_match_stats, StatsBatch, TRUE)

\* the step writes a value that is not null to an aggregate column of row n
WritesAggregate(n) ==
    \E c \in AggregateColumns :
       /\ ~IsNone(team_match_stats'[n][c])
       /\ n <= Len(team_match_stats) => team_match_stats'[n][c] # team_match_stats[n][c]

\* C23: in every pass over a match, once the batch upsert of the team stats
\* is applied, formation, average_team_rating and total_team_market_value of
\* the period ALL rows of the match are null, also where an earlier pass had
\* filled them, and they stay null until the update of the aggregates: no
\* other step writes a value that is not null to these columns.
C23_AggregatesNullUntilUpdate ==
    [][/\ BatchApplied =>
             /\ AllPeriodRows(team_match_stats', match_id) # {}
             /\ \A n \in AllPeriodRows(team_match_stats', match_id) : \A c \in AggregateColumns :
                   IsNone(team_match_stats'[n][c])
       /\ main_pc # "aggregates" => \A n \in 1..Len(team_match_stats') : ~WritesAggregate(n)]_vars

\* the team stats of the first match are upserted again: the aggregate columns
\* of its period ALL rows, which the earlier pass had filled, are null
C23_Witness ==
    /\ main_pc = "player_stats" /\ run_no = 1 /\ match_index = 1
    /\ AllPeriodRows(EarlierPass, match_id) # {}
    /\ \A n \in AllPeriodRows(EarlierPass, match_id) : ~IsNone(EarlierPass[n]["average_team_rating"])
    /\ AllPeriodRows(team_match_stats, match_id) # {}
    /\ \A n \in AllPeriodRows(team_match_stats, match_id) : \A c \in AggregateColumns :
          IsNone(team_match_stats[n][c])

----------------------------------------------------------------------------
(* Properties of the simple columns of the team stat tuples, under           *)
(* SpecTeamStats                                                             *)

\* the only item of an item payload
TheItem == ts_input.list[1].groups[1].statisticsItems[1]

\* the columns a simple mapping copies the statistic of the item to
SimpleColumnsOf(name) ==
    {SimpleMappings[j][2] : j \in {i \in 1..Len(SimpleMappings) :
                                      /\ name \in DOMAIN STATS_NAME_MAP_API_TO_TEMP
                                      /\ SimpleMappings[i][1] = STATS_NAME_MAP_API_TO_TEMP[name]}}

\* the payload has one item, of a statistic with a simple column, and the
\* normalizer gives a fraction record for its home value
FractionForSimpleColumn ==
    /\ StatsParsed /\ ts_input.form = "item"
    /\ SimpleColumnsOf(TheItem.name) # {}
    /\ "home" \in DOMAIN TheItem
    /\ IsDict(_convert_to_numeric(TheItem.home, FALSE))

\* C24: when the normalizer gives a fraction record for a statistic that is
\* mapped to a simple counter column (Big chances given as 3/5 (60%)), the
\* team stat record builder rejects the value and the column is null in the
\* tuple it emits.
C24_FractionInSimpleColumnIsNull ==
    FractionForSimpleColumn =>
       \A key \in SimpleColumnsOf(TheItem.name) : IsNone(ColumnOf(ts_batch, "ALL", "home", key))

\* Big chances given as a fraction text: the column of the tuple is 0
C24_Witness ==
    /\ FractionForSimpleColumn
    /\ TheItem.name = "Big chances"
    /\ ColumnOf(ts_batch, "ALL", "home", "big_chances") = IntV(0)

\* what the code keeps of C24: the column has what it has for a statistic
\* that is absent, 0 or null by its name; tackles_total has the fraction
\* record itself
C24_FractionInSimpleColumnIsDefault ==
    FractionForSimpleColumn =>
       \A key \in SimpleColumnsOf(TheItem.name) :
          ColumnOf(ts_batch, "ALL", "home", key) \in
             IF key = "tackles_total" THEN {_convert_to_numeric(TheItem.home, tie) : tie \in BOOLEAN}
             ELSE IF key \in ZeroDefaultColumns THEN {IntV(0)} ELSE {NoneV}

----------------------------------------------------------------------------
(* Properties of the incidents that lack a player, under SpecEvents *)

\* the call is over and its two fetches gave their lists
EventsReturned ==
    ev_pc = "returned" /\ ev_source.incidents.kind = "obj" /\ ev_source.shotmap.kind = "obj"

FetchedIncidents == ListOf(incidents_data, "incidents")
FetchedShots == ListOf(shotmap_data, "shotmap")

\* no id: the key is absent, or holds null, or an object without a truthy id
NoId(incident, key) == GetId(incident, key).kind = "raised" \/ Falsy(GetId(incident, key))

TypeOf(incident) == Get(incident, "incidentType", NoneV)

\* the incident has the minute and the side that its base event needs, and is
\* not the card of a manager
BaseDue(incident) ==
    /\ ~IsNone(Get(incident, "time", NoneV)) /\ ~IsNone(Get(incident, "isHome", NoneV))
    /\ ~(TypeOf(incident) = TextV("card") /\ ~Falsy(Get(incident, "manager", NoneV)))

\* a goal without scorer, a card without player or class, a substitution
\* without one of its two players
Incomplete(incident) ==
    \/ TypeOf(incident) = TextV("goal") /\ NoId(incident, "player")
    \/ TypeOf(incident) = TextV("card")
          /\ (NoId(incident, "player") \/ Falsy(Get(incident, "incidentClass", NoneV)))
    \/ TypeOf(incident) = TextV("substitution")
          /\ (NoId(incident, "playerIn") \/ NoId(incident, "playerOut"))

VarWithoutPlayer(incident) == TypeOf(incident) = TextV("varDecision") /\ ~Has(incident, "player")

\* the statements of the log issued for an item on a set of tables
StatementsFor(item, tables) ==
    {i \in 1..Len(ev_log) : ev_log[i].item = item /\ ev_log[i].table \in tables}

\* an incomplete incident has its base event and no sub-record, and the call
\* returns False; a VAR decision without player has its base event and, when
\* that went through, its sub-record
IncompleteIncidentsFail ==
    EventsReturned =>
       \A n \in 1..Len(FetchedIncidents) :
          /\ (Incomplete(FetchedIncidents[n]) /\ BaseDue(FetchedIncidents[n])) =>
                /\ StatementsFor(<<"incidents", n>>, {"match_event_base"}) # {}
                /\ StatementsFor(<<"incidents", n>>, SubRecordTables) = {}
                /\ ev_result = BoolV(FALSE)
          /\ (VarWithoutPlayer(FetchedIncidents[n]) /\ BaseDue(FetchedIncidents[n])) =>
                /\ \E i \in StatementsFor(<<"incidents", n>>, {"match_event_base"}) :
                      /\ IsNone(ev_log[i].params.player_id)
                      /\ ev_log[i].ok =>
                            StatementsFor(<<"incidents", n>>, {"var_decision_events"}) # {}

\* the incidents are VAR decisions without player, there is no shot, and
\* every statement of the call went through
OnlyVarDecisionsStored ==
    /\ EventsReturned
    /\ FetchedShots = <<>> /\ FetchedIncidents # <<>>
    /\ \A n \in 1..Len(FetchedIncidents) :
          VarWithoutPlayer(FetchedIncidents[n]) /\ BaseDue(FetchedIncidents[n])
    /\ \A i \in 1..Len(ev_log) : ev_log[i].ok

\* C25: a goal without scoring player id, a card (not of a manager) without
\* player id or card class, and a substitution without player-in or
\* player-out id get a base event and no sub-record, and the event phase of
\* the match returns failure; a VAR decision without player gets its base
\* event and its sub-record and does not by itself make the phase fail.
C25_IncompleteFailVarDoesNot ==
    /\ IncompleteIncidentsFail
    /\ OnlyVarDecisionsStored => ev_result = BoolV(TRUE)

\* a call whose only incident is a VAR decision without player: its base
\* event and its sub-record are stored, and the call returned False
C25_Witness ==
    /\ OnlyVarDecisionsStored
    /\ Len(event_tables["match_event_base"]) = 1
    /\ Len(event_tables["var_decision_events"]) = 1
    /\ ev_result = BoolV(FALSE)

\* what the code keeps of C25: the part on the incomplete incidents, and a
\* call that issued a statement on a sub-record table returns False
C25_IncompleteFailAndSoDoSubRecords ==
    /\ IncompleteIncidentsFail
    /\ (EventsReturned /\ SubStatements # {}) => ev_result = BoolV(FALSE)

----------------------------------------------------------------------------
(* Properties of the shot list, under SpecEvents *)

\* the shot has what lines 276-291 ask of it: shooter id, minute and side
ShotComplete(shot) ==
    /\ ~NoId(shot, "player")
    /\ ~IsNone(Get(shot, "time", NoneV)) /\ ~IsNone(Get(shot, "isHome", NoneV))

MissedPenaltyShot(shot) ==
    Get(shot, "shotType", NoneV) = TextV("miss") /\ Get(shot, "situation", NoneV) = TextV("penalty")

\* a coordinates entry of the shot holds null
NullCoordinates(shot) ==
    \E key \in {"playerCoordinates", "goalMouthCoordinates", "blockCoordinates"} :
       key \in DOMAIN shot /\ shot[key].kind # "obj"

\* the statements of the shot at index n of the list: none for an entry that
\* is not a shot or lacks shooter id, minute or side; else one base event of
\* type 'shot' and, when that went through, one ShotEvent, and one
\* MissedPenaltyEvent exactly for a missed penalty, both with its event_id
ShotStatements(n) ==
    LET shot == FetchedShots[n]
        item == <<"shots", n>>
        base == StatementsFor(item, {"match_event_base"})
        shots == StatementsFor(item, {"shot_events"})
        penalties == StatementsFor(item, {"missed_penalty_events"})
    IN IF TypeOf(shot) # TextV("shot") \/ ~ShotComplete(shot)
       THEN StatementsFor(item, EventTables) = {}
       ELSE /\ Cardinality(base) = 1
            /\ \A b \in base :
                  /\ ev_log[b].params.event_type = TextV("shot")
                  /\ IF ev_log[b].ok
                     THEN /\ Cardinality(shots) = 1
                          /\ Cardinality(penalties) = IF MissedPenaltyShot(shot) THEN 1 ELSE 0
                          /\ \A i \in shots \cup penalties :
                                ev_log[i].params.event_id = ev_log[b].returned.items["event_id"]
                     ELSE shots \cup penalties = {}
            /\ StatementsFor(item, SubRecordTables) = shots \cup penalties

\* C26: of the shot list, an entry whose incidentType is not "shot" produces
\* no rows; a shot without shooter id, minute or home/away flag produces no
\* base event and no sub-record; every other shot produces one base event of
\* type 'shot' and one ShotEvent, and one MissedPenaltyEvent with the same
\* event_id exactly when its outcome is "miss" and its situation "penalty".
C26_RowsOfEveryShot ==
    EventsReturned => \A n \in 1..Len(FetchedShots) : ShotStatements(n)

\* a missed penalty with its three rows, all of one event_id
C26_Witness ==
    /\ EventsReturned
    /\ \E n \in 1..Len(FetchedShots) :
          /\ MissedPenaltyShot(FetchedShots[n]) /\ ShotComplete(FetchedShots[n])
          /\ Len(event_tables["match_event_base"]) = 1
          /\ Len(event_tables["shot_events"]) = 1
          /\ Len(event_tables["missed_penalty_events"]) = 1
          /\ event_tables["shot_events"][1].event_id = event_tables["match_event_base"][1].event_id
          /\ event_tables["missed_penalty_events"][1].event_id
                = event_tables["match_event_base"][1].event_id

\* what the code keeps of C26: the claim for the shots none of whose
\* coordinates entries holds null
C26_RowsOfShotsWithCoordinates ==
    EventsReturned =>
       \A n \in 1..Len(FetchedShots) : ~NullCoordinates(FetchedShots[n]) => ShotStatements(n)

----------------------------------------------------------------------------
(* The event phase run again for the same match *)

MaxEventRuns == 2   \* the event phase is called up to MaxEventRuns times for the match

\* the call of main.py:156 of a later run that deletes the events of the match first
ProcessIncidentsAndShotsAgain_ReplacesEvents ==
    /\ ev_pc = "returned" /\ ev_runs + 1 < MaxEventRuns
    /\ ev_runs' = ev_runs + 1
    /\ incidents_data' = NoneV /\ shotmap_data' = NoneV /\ success' = TRUE
    /\ ev_pending' = {} /\ ev_index' = 0 /\ ev_pc' = "start" /\ ev_result' = NoneV
    /\ event_tables' = NoEvents
    /\ UNCHANGED <<ev_source, ev_args, players_table, ev_log, er_rest>>

\* the call of main.py:156 of a later run, for the same match and with the
\* same payloads: the locals of the call are new, the tables are as the
\* earlier calls left them
ProcessIncidentsAndShotsAgain ==
    /\ ev_pc = "returned" /\ ev_runs + 1 < MaxEventRuns
    /\ ev_runs' = ev_runs + 1
    /\ incidents_data' = NoneV /\ shotmap_data' = NoneV /\ success' = TRUE
    /\ ev_pending' = {} /\ ev_index' = 0 /\ ev_pc' = "start" /\ ev_result' = NoneV
    /\ UNCHANGED <<ev_source, ev_args, players_table, event_tables, ev_log, er_rest>>

\* a goal and a missed penalty; a VAR decision; a card without class and a
\* shot without shooter
RunSources ==
    {[incidents |-> Incidents(<<Incident("goal", [player |-> Player(1), goalType |-> TextV("regular")])>>),
      shotmap |-> Shotmap(<<Shot([player |-> Player(1), shotType |-> TextV("miss"),
                                  situation |-> TextV("penalty")])>>)],
     [incidents |-> Incidents(<<Incident("varDecision", [incidentClass |-> TextV("goalAwarded")])>>),
      shotmap |-> Shotmap(<<>>)],
     [incidents |-> Incidents(<<Incident("card", [player |-> Player(1)])>>),
      shotmap |-> Shotmap(<<Shot([shotType |-> TextV("save")])>>)]}

EventRunsInit ==
    /\ NormIdle /\ PlayersIdle /\ TeamStatsIdle /\ MainIdle /\ RoundsIdle /\ DimensionsIdle /\ SucceededIdle /\ PoolIdle
    /\ ev_runs = 0
    /\ ev_source \in RunSources
    /\ ev_args = [match_id |-> 1001, home_team_id |-> 10, away_team_id |-> 20]
    /\ incidents_data = NoneV /\ shotmap_data = NoneV /\ success = TRUE
    /\ ev_pending = {} /\ ev_index = 0 /\ ev_pc = "start" /\ ev_result = NoneV
    /\ players_table = <<>> /\ event_tables = NoEvents /\ ev_log = <<>>

EventRunsNext == EventsNext \/ ProcessIncidentsAndShotsAgain

SpecEventRuns == EventRunsInit /\ [][EventRunsNext]_vars

\* the items of the two lists that get a base event and a sub-record
QualifyingItems ==
    {<<"incidents", n>> : n \in {k \in 1..Len(FetchedIncidents) :
        /\ BaseDue(FetchedIncidents[k]) /\ ~Incomplete(FetchedIncidents[k])
        /\ TypeOf(FetchedIncidents[k]) \in {TextV("goal"), TextV("card"), TextV("substitution"),
                                            TextV("varDecision")}}}
    \cup {<<"shots", n>> : n \in {k \in 1..Len(FetchedShots) :
        /\ TypeOf(FetchedShots[k]) = TextV("shot") /\ ShotComplete(FetchedShots[k])
        /\ ~NullCoordinates(FetchedShots[k])}}

\* the base-event statements of an item that went through
Stored(item) == {i \in StatementsFor(item, {"match_event_base"}) : ev_log[i].ok}

EventIdOf(i) == ev_log[i].returned.items["event_id"]

\* when a call has returned, every call so far has issued the base-event
\* insert of every qualifying item, every one that went through has an
\* event_id of its own, is a row of the table, and has its own sub-record
EveryRunInserted ==
    EventsReturned =>
       /\ \A item \in QualifyingItems :
             /\ Cardinality(StatementsFor(item, {"match_event_base"})) = ev_runs + 1
             /\ \A b \in Stored(item) :
                   /\ \E r \in 1..Len(event_tables["match_event_base"]) :
                         event_tables["match_event_base"][r].event_id = EventIdOf(b)
                   /\ \E i \in StatementsFor(item, SubRecordTables) :
                         i > b /\ ev_log[i].params.event_id = EventIdOf(b)
       /\ \A b, c \in BaseStatements : (ev_log[b].ok /\ ev_log[c].ok /\ b # c) => EventIdOf(b) # EventIdOf(c)
       /\ Len(event_tables["match_event_base"]) = Cardinality({b \in BaseStatements : ev_log[b].ok})

\* no step changes or removes a row of an event table
NoRowTouched ==
    \A t \in EventTables :
       /\ Len(event_tables'[t]) >= Len(event_tables[t])
       /\ SubSeq(event_tables'[t], 1, Len(event_tables[t])) = event_tables[t]

----------------------------------------------------------------------------
(* Properties of the summary of a run, under Spec *)

MatchIdsOfRun == {all_match_ids[k] : k \in 1..Len(all_match_ids)}

\* the matches the loop came to
MatchIdsReached == {all_match_ids[k] : k \in 1..match_index}

\* total_detailed_success of the summary (main.py:199-201)
total_detailed_success == Len(all_match_ids) - Cardinality(failed_match_ids_detailed)

\* C28: at the end of a run the reported number of successful matches is the
\* number of matches whose phases were all run and all succeeded, and every
\* other match of the run is in the failed set, also when the loop was left
\* early because the browser context could not be set up again: the matches
\* not reached do not count as successful.
C28_SummaryCountsSucceededMatches ==
    main_pc = "finished" =>
       /\ total_detailed_success = Cardinality(succeeded_match_ids)
       /\ MatchIdsOfRun \ succeeded_match_ids \subseteq failed_match_ids_detailed

\* the loop was left at the first of two matches: one failed match, no match
\* whose phases all succeeded, one match reported as successful
C28_Witness ==
    /\ main_pc = "finished" /\ stopped
    /\ match_index = 1 /\ Len(all_match_ids) = 2
    /\ failed_match_ids_detailed = {all_match_ids[1]}
    /\ succeeded_match_ids = {}
    /\ total_detailed_success = 1

\* what the code keeps of C28: of the matches the loop came to, those whose
\* phases did not all succeed are the failed set, and the summary is right
\* for a loop that came to every match
C28_SummaryOfReachedMatches ==
    main_pc = "finished" =>
       /\ failed_match_ids_detailed = MatchIdsReached \ succeeded_match_ids
       /\ succeeded_match_ids \subseteq MatchIdsReached
       /\ match_index = Len(all_match_ids) =>
             total_detailed_success = Cardinality(succeeded_match_ids)

----------------------------------------------------------------------------
(* Properties of the batch of team stat tuples, under SpecTeamStats *)

\* the position of a column in the INSERT of insert_team_stats_batch
InsertIndex(column) == CHOOSE i \in 1..Len(TeamStatsColumns) : TeamStatsColumns[i] = column

\* the payload without the period objects of unknown period and without the
\* items of unknown name
KnownOnly(statistics_json_list) ==
    LET KnownItem(item) == "name" \in DOMAIN item /\ item.name \in DOMAIN STATS_NAME_MAP_API_TO_TEMP
        OfGroup(group) ==
            IF "statisticsItems" \in DOMAIN group
            THEN [group EXCEPT !.statisticsItems = SelectSeq(@, KnownItem)]
            ELSE group
        OfPeriod(obj) ==
            IF "groups" \in DOMAIN obj
            THEN [obj EXCEPT !.groups = [g \in 1..Len(@) |-> OfGroup(@[g])]]
            ELSE obj
        KnownPeriod(obj) == "period" \in DOMAIN obj /\ obj.period \in {"ALL", "1ST", "2ND"}
        Kept(list) == [i \in 1..Len(list) |-> OfPeriod(list[i])]
    IN Kept(SelectSeq(statistics_json_list, KnownPeriod))

----------------------------------------------------------------------------
(* The connection pool under execute_query and execute_batch *)

maxconn == 5    \* SimpleConnectionPool(minconn=1, maxconn=5, ...)
MaxCalls == 5   \* execute_query and execute_batch are called up to MaxCalls times

Connections == 1..maxconn

\* the module is loaded: the pool is there, or db_pool = None (lines 16-36)
PoolInit ==
    /\ NormIdle /\ PlayersIdle /\ TeamStatsIdle /\ MainIdle /\ EventsIdle /\ RoundsIdle /\ DimensionsIdle /\ RerunsIdle /\ SucceededIdle
    /\ db_pool \in BOOLEAN
    /\ pool_used = {} /\ pending = [c \in Connections |-> 0] /\ committed = 0
    /\ cp_pc = "idle" /\ cp_kind = "none" /\ conn = 0 /\ cp_failed = FALSE /\ cp_calls = 0
    /\ leaked = {} /\ unrolled = {}

\* execute_query(sql, params, fetch, many) is called: conn = None
CallExecuteQuery ==
    /\ cp_pc = "idle" /\ cp_calls < MaxCalls
    /\ cp_calls' = cp_calls + 1
    /\ cp_kind' = "query" /\ conn' = 0 /\ cp_failed' = FALSE /\ cp_pc' = "get"
    /\ UNCHANGED <<db_pool, pool_used, pending, committed, leaked, unrolled, cp_rest>>

\* execute_batch(sql, data_list) is called: with an empty list it returns
\* False before it asks for a connection
CallExecuteBatch ==
    /\ cp_pc = "idle" /\ cp_calls < MaxCalls
    /\ cp_calls' = cp_calls + 1
    /\ cp_kind' = "batch" /\ conn' = 0 /\ cp_failed' = FALSE
    /\ \E empty \in BOOLEAN : cp_pc' = IF empty THEN "idle" ELSE "get"
    /\ UNCHANGED <<db_pool, pool_used, pending, committed, leaked, unrolled, cp_rest>>

\* conn = get_connection(): None without a pool and when getconn raises, as it
\* does when maxconn connections are out; without a connection the call
\* returns
get_connection ==
    /\ cp_pc = "get"
    /\ \E raised \in BOOLEAN :
          IF db_pool /\ ~raised /\ Cardinality(pool_used) < maxconn
          THEN /\ conn' = CHOOSE c \in Connections \ pool_used :
                             \A d \in Connections \ pool_used : c <= d
               /\ pool_used' = pool_used \cup {conn'}
               /\ cp_pc' = "execute"
          ELSE /\ conn' = 0 /\ pool_used' = pool_used /\ cp_pc' = "idle"
    /\ UNCHANGED <<db_pool, pending, committed, cp_kind, cp_failed, cp_calls, leaked, unrolled,
                 cp_rest>>

\* cursor.execute(sql, params) or cursor.executemany(sql, data_list): the
\* change joins the transaction of the connection, or the statement raises; a
\* batch that raises may have changed rows before
ExecuteStatement ==
    /\ cp_pc = "execute"
    /\ \E raised \in BOOLEAN, changed \in 0..1 :
          /\ raised => (changed = 0 \/ cp_kind = "batch")
          /\ ~raised => changed = 1
          /\ pending' = [pending EXCEPT ![conn] = @ + changed]
          /\ cp_failed' = raised
          /\ cp_pc' = IF raised THEN "rollback" ELSE "commit"
    /\ UNCHANGED <<db_pool, pool_used, committed, cp_kind, conn, cp_calls, leaked, unrolled,
                 cp_rest>>

\* conn.commit(): the transaction of the connection is committed, or commit raises
Commit ==
    /\ cp_pc = "commit"
    /\ \E raised \in BOOLEAN :
          IF raised
          THEN /\ cp_failed' = TRUE /\ cp_pc' = "rollback"
               /\ UNCHANGED <<pending, committed, unrolled>>
          ELSE /\ committed' = committed + pending[conn]
               /\ pending' = [pending EXCEPT ![conn] = 0]
               /\ unrolled' = unrolled \ {conn}
               /\ cp_failed' = FALSE /\ cp_pc' = "release"
    /\ UNCHANGED <<db_pool, pool_used, cp_kind, conn, cp_calls, leaked, cp_rest>>

\* except: conn.rollback() in its own try; when it raises the error is logged
Rollback ==
    /\ cp_pc = "rollback"
    /\ \E raised \in BOOLEAN :
          IF raised
          THEN pending' = pending /\ unrolled' = unrolled \cup {conn}
          ELSE pending' = [pending EXCEPT ![conn] = 0] /\ unrolled' = unrolled \ {conn}
    /\ cp_pc' = "release"
    /\ UNCHANGED <<db_pool, pool_used, committed, cp_kind, conn, cp_failed, cp_calls, leaked,
                 cp_rest>>

\* finally: release_connection(conn); when putconn raises the error is logged
\* and the pool has not taken the connection back. The call returns.
release_connection ==
    /\ cp_pc = "release"
    /\ \E raised \in BOOLEAN :
          IF raised
          THEN pool_used' = pool_used /\ leaked' = leaked \cup {conn}
          ELSE pool_used' = pool_used \ {conn} /\ leaked' = leaked
    /\ cp_pc' = "idle"
    /\ UNCHANGED <<db_pool, pending, committed, cp_kind, conn, cp_failed, cp_calls, unrolled,
                 cp_rest>>

PoolNext ==
    \/ CallExecuteQuery \/ CallExecuteBatch \/ get_connection \/ ExecuteStatement \/ Commit
    \/ Rollback \/ release_connection

SpecPool == PoolInit /\ [][PoolNext]_vars

----------------------------------------------------------------------------
(* Properties of the connection pool, under SpecPool *)

BetweenCalls == cp_pc = "idle"

\* C30: after any sequence of execute_query and execute_batch calls, whatever
\* their outcomes (success, statement error, rollback error, no connection),
\* every connection taken from the pool has been returned: between calls no
\* connection is out, during a call at most one, never more than the pool
\* maximum, and a failed call leaves no uncommitted change, its transaction
\* being rolled back before the connection is released.
C30_ConnectionsReturnedAndRolledBack ==
    /\ BetweenCalls => pool_used = {}
    /\ Cardinality(pool_used) <= 1 /\ Cardinality(pool_used) <= maxconn
    /\ (cp_pc \in {"release", "idle"} /\ cp_failed) => \A c \in Connections : pending[c] = 0

\* a call whose statement raised and whose rollback raised has returned its
\* connection to the pool with the change of its transaction still open
C30_Witness ==
    /\ BetweenCalls /\ cp_failed /\ cp_kind = "batch"
    /\ pool_used = {} /\ leaked = {}
    /\ conn \in unrolled /\ pending[conn] = 1

\* what the code keeps of C30: the connections out between calls are those
\* whose putconn raised, a call holds one connection more at most, never more
\* than maxconn are out, and the transactions left open are those whose
\* rollback raised
C30_ReturnedUnlessPutconnOrRollbackRaised ==
    /\ BetweenCalls => pool_used = leaked
    /\ pool_used \subseteq leaked \cup {conn}
    /\ Cardinality(pool_used) <= maxconn
    /\ (cp_pc \in {"release", "idle"}) => \A c \in Connections : pending[c] > 0 => c \in unrolled

====
